---- MODULE Spec2Model ----
(***************************************************************************)
(* Model of the DataprocSpawner (src/dataprocspawner/spawner.py): the      *)
(* cluster-configuration merge (_build_cluster_config), the lifecycle      *)
(* hooks start / stop / poll against the Dataproc control plane, and the   *)
(* zone-retry loop of _create_cluster.                                     *)
(*                                                                         *)
(* Python values are modelled as follows.                                  *)
(*   dict            a function whose DOMAIN is the set of present keys    *)
(*   str             a TLA+ string, except zone names                      *)
(*   zone name       a sequence of text pieces, so that the last character *)
(*                   ([-1]) and the f-string f'{region}-{letter}' are      *)
(*                   computed as the code computes them                    *)
(*   None            NoneS where a str is expected, NoneZ where a zone name*)
(*                   is expected                                           *)
(***************************************************************************)
EXTENDS Integers, Sequences, FiniteSets, TLC

(***************************************************************************)
(* Bounds of the model.                                                    *)
(***************************************************************************)
\* lifecycle calls (start, stop, poll) made on the spawner
MaxOps == 2
\* zone letters in dataproc_locations_list
MaxLocs == 3
\* release candidates 2.0.0-RC1 .. 2.0.0-RC<MaxRC> among the image versions
MaxRC == 13
\* characters of a duration given as text
MaxDurLen == 3
\* log entries and failed log queries, taken together, of a spawn observed
\* by two consumers
MaxLogs == 2
\* log entries of a spawn observed by one consumer
MaxBarLogs == 13
\* calls of is_reachable that one wait_up makes before its timeout
MaxReach == 3
\* characters of a user name, and lifecycle calls of the users of one hub
MaxNameLen == 2
MaxTenantOps == 2
\* lifecycle calls that the host makes on a spawner whose cluster is deleted
\* by another actor
MaxCacheOps == 4
\* spawn attempts of one spawner after its first
MaxRespawns == 1

(***************************************************************************)
(* dict helpers                                                            *)
(***************************************************************************)
EmptyDict == <<>>
Has(d, k) == k \in DOMAIN d
Put(d, k, v) == (k :> v) @@ d
SetDefault(d, k, v) == IF Has(d, k) THEN d ELSE Put(d, k, v)
Pop(d, k) == [x \in (DOMAIN d) \ {k} |-> d[x]]
Put2(d, k1, k2, v) == Put(d, k1, Put(d[k1], k2, v))
Put3(d, k1, k2, k3, v) == Put(d, k1, Put2(d[k1], k2, k3, v))

NoneS == "<None>"
NoneZ == <<"<None>">>
\* dict.get(key) for a str-valued key and for the zone-valued key
GetS(d, k) == IF Has(d, k) THEN d[k] ELSE NoneS
GetZ(d, k) == IF Has(d, k) THEN d[k] ELSE NoneZ
\* truth value of a str or None
TruthyS(v) == v \notin {NoneS, ""}

(***************************************************************************)
(* Text of zones and zone URIs.                                            *)
(***************************************************************************)
\* f'{region}-{zone_letter}': the region, a dash, the letter ('' adds nothing)
ZoneName(region, zone_letter) ==
  <<region, "-">> \o (IF zone_letter = "" THEN <<>> ELSE <<zone_letter>>)
\* f'{cluster_zone}' : None is formatted as the text 'None'
FormatZone(z) == IF z = NoneZ THEN <<"Non", "e">> ELSE z
\* 'https://www.googleapis.com/compute/v1/projects/{project}/zones/{zone}',
\* as its path segments after '.../v1'
ZoneUri(project, zone) == <<"projects", project, "zones", zone>>
\* s.split('/')[-1] of a zone URI, and s[-1] of a zone name
LastSegment(uri) == uri[Len(uri)]
LastChar(z) == z[Len(z)]

(***************************************************************************)
(* Program constants.                                                      *)
(***************************************************************************)
\* region = Unicode('us-central1')
Region == "us-central1"
\* c.DataprocSpawner.project of the deployment
Project == "test-project"
\* self.user.name of the invoking user, and get_username() of it
UserName == "fake@example.com"
get_username == "fake"
\* clustername(): cluster_name_pattern 'dataprochub-{}' applied to get_username()
clustername == "dataprochub-fake"
\* get_args() joined and get_env() dumped by create_cluster
args_str == "hub-args"
env_str == "hub-env"
\* show_spawned_clusters_in_notebooks_list, gcs_user_folder, spawner_host_type
show_spawned_clusters_in_notebooks_list == FALSE
gcs_user_folder == "gs://users-notebooks/fake"
spawner_host_type == ""
\* _create_cluster(self, cluster_data, try_count=3)
DefaultTryCount == 3
\* the zone letters that configurations of the model use
Letters == {"a", "b", "c"}

\* names of software properties, f'{prefix}:{key}' as the pair <<prefix, key>>
HubArgs == <<"dataproc", "jupyter.hub.args">>
HubEnv == <<"dataproc", "jupyter.hub.env">>
HubMenuEnabled == <<"dataproc", "jupyter.hub.menu.enabled">>
HubEnabled == <<"dataproc", "jupyter.hub.enabled">>
InstanceTagEnabled == <<"dataproc", "jupyter.instance-tag.enabled">>
NotebookGcsDir == <<"dataproc", "jupyter.notebook.gcs.dir">>
exclusive_user_property == <<"dataproc", "dataproc.exclusive.user">>
NamenodeLifeline == <<"hdfs", "dfs.namenode.lifeline.rpc-address">>
NamenodeServiceRpc == <<"hdfs", "dfs.namenode.servicerpc-address">>

(***************************************************************************)
(* State.                                                                  *)
(***************************************************************************)
VARIABLES
  \* operator configuration of the spawner (traitlets)
  project, zone, dataproc_locations_list, allow_custom_clusters,
  force_single_user, force_add_jupyter_component,
  \* dataproc_default_subnet as the list of its segments between slashes
  \* (<<>> is '')
  dataproc_default_subnet,
  \* the version the Compute API reports for a custom image (the label
  \* goog-dataproc-version), '' when the lookup fails
  image_label_version,
  \* the admin template (the YAML file of the form path, self.cluster_data
  \* of the path without form) and the submitted form (self.user_options)
  template, user_options,
  \* the exceptions with which the control plane of this deployment can
  \* refuse a create call
  createErrors,
  \* self.cluster_definition, and how the last build ended
  cluster_definition, built,
  \* the control plane's record of the cluster named clustername()
  cluster,
  \* position of the running start() call, "idle" between lifecycle calls
  pc,
  \* self.operation (0 is None), and try_count / the caught exception of
  \* _create_cluster
  operation, try_count, lastErr,
  \* calls received by the control-plane client: create_cluster, delete_cluster
  createLog, deleteLog,
  \* the lifecycle calls that ended, each with its outcome
  opLog,
  \* the status the running start() got from its first query, lifecycle calls
  \* the host still makes, and what the environment did (failed reads, other
  \* actors)
  firstStatus, budget, faults,
  \* whether the running (or last) start() call read the state DELETING
  seenDeleting,
  \* self._spawn_pending of the host framework
  spawn_pending,
  \* self.progressor[self.clustername()]: bar, logging (the insert ids seen,
  \* 0 is 'yields_start') and yields
  progressor,
  \* metadata.status.inner_state of the create operation, as the control
  \* plane holds it
  opState,
  \* the log sink: the number of entries it holds (their insert ids are
  \* 1..count), the number of queries it failed, and the limits of both
  logSink,
  \* the consumers of _generate_progress: where each generator is suspended,
  \* its locals, and the events it has yielded to its consumer
  observers,
  \* the events in the order in which they were first yielded to a consumer,
  \* and the number of events created
  emitted, created,
  \* the DataprocHubServer of the spawner: where wait_up is, and the state it
  \* read last
  server,
  \* the spawn attempts of this spawner after the first: what the progressor
  \* held and what had been emitted when each began
  spawns,
  \* spawners of several users of one hub, and the clusters of the project
  tenants

hubVars == <<server, spawns, tenants>>

progVars == <<spawn_pending, progressor, opState, logSink, observers, emitted,
              created>>

cfgVars == <<project, zone, dataproc_locations_list, allow_custom_clusters,
             force_single_user, force_add_jupyter_component,
             dataproc_default_subnet, image_label_version, template,
             user_options, createErrors>>

\* the spawner object as the build reads it
self == [project |-> project, region |-> Region, zone |-> zone,
         user_name |-> UserName, user_options |-> user_options,
         cluster_data |-> template,
         allow_custom_clusters |-> allow_custom_clusters,
         force_single_user |-> force_single_user,
         force_add_jupyter_component |-> force_add_jupyter_component,
         dataproc_default_subnet |-> dataproc_default_subnet,
         image_label_version |-> image_label_version,
         dataproc_locations_list |-> dataproc_locations_list]

(***************************************************************************)
(* _build_cluster_config and its callees.                                  *)
(***************************************************************************)
\* get_cluster_definition: the parsed YAML with 'config', 'software_config'
\* and 'gce_cluster_config' defaulted (keys are modelled in snake_case)
get_cluster_definition(s) ==
  LET d0 == SetDefault(s.cluster_data, "config", EmptyDict)
      d1 == Put(d0, "config", SetDefault(d0["config"], "software_config", EmptyDict))
  IN  Put(d1, "config", SetDefault(d1["config"], "gce_cluster_config", EmptyDict))

\* _get_image_version: the label of the custom image, '' when the lookup fails
get_image_version(s) == s.image_label_version

\* _apply_users_configs: the free-form property triple cluster_props_*_0
\* and the image version of the form (the other form overrides write to
\* fields this model does not carry)
apply_users_configs(s, cd) ==
  LET uo == s.user_options
      props == {k \in DOMAIN uo : k \in {"cluster_props_prefix_0",
                                       "cluster_props_key_0",
                                       "cluster_props_val_0"}}
      d1 == IF TruthyS(GetS(uo, "cluster_props_prefix_0"))
               /\ Cardinality(props) % 3 = 0
            THEN Put3(cd, "config", "software_config", "properties",
                      Put(cd["config"]["software_config"]["properties"],
                          <<uo["cluster_props_prefix_0"], uo["cluster_props_key_0"]>>,
                          uo["cluster_props_val_0"]))
            ELSE cd
      c1 == d1["config"]
      custom_image == GetS(uo, "custom_image")
      c2 == IF TruthyS(custom_image)
            THEN Put2(Put2(Put2(c1, "master_config", "image_uri", custom_image),
                           "worker_config", "image_uri", custom_image),
                      "software_config", "image_version", get_image_version(s))
            ELSE Put2(Put(Put(c1, "master_config", Pop(c1["master_config"], "image_uri")),
                          "worker_config", Pop(c1["worker_config"], "image_uri")),
                      "software_config", "image_version", uo["image_version"])
  IN  IF Has(uo, "image_version") /\ uo["image_version"] # <<<<"">>>>
      THEN Put(d1, "config", c2)
      ELSE d1

\* variant: the form alone decides
CustomGate_form_only(s) == TruthyS(GetS(s.user_options, "custom_cluster"))
\* 'if self.allow_custom_clusters and self.user_options.get('custom_cluster')'
CustomGate(s) ==
  s.allow_custom_clusters /\ TruthyS(GetS(s.user_options, "custom_cluster"))

\* the block 'if self.user_options:' of _build_cluster_config, after the
\* template is read
FormPass(s, cd0) ==
  LET uo == s.user_options
      c0 == cd0["config"]
      c1 == SetDefault(SetDefault(SetDefault(c0, "gce_cluster_config", EmptyDict),
                                  "master_config", EmptyDict),
                       "worker_config", EmptyDict)
      c2 == SetDefault(SetDefault(c1, "initialization_actions", <<>>),
                       "software_config", EmptyDict)
      c3 == Put(c2, "software_config",
                SetDefault(c2["software_config"], "properties", EmptyDict))
      metadata == IF Has(c3["gce_cluster_config"], "metadata")
                  THEN c3["gce_cluster_config"]["metadata"] ELSE EmptyDict
      \* exclusive_user == 'on'
      c4 == IF GetS(uo, "exclusive_user") = "on"
            THEN Put2(c3, "software_config", "properties",
                      Put(c3["software_config"]["properties"],
                          exclusive_user_property, s.user_name))
            ELSE c3
      \* 'Sets default network for the cluster if not already provided'
      c4n == IF ~Has(c4["gce_cluster_config"], "network_uri")
                /\ ~Has(c4["gce_cluster_config"], "subnetwork_uri")
                /\ s.dataproc_default_subnet # <<>>
             THEN Put2(c4, "gce_cluster_config", "subnetwork_uri",
                       s.dataproc_default_subnet)
             ELSE c4
      c5 == Put2(c4n, "gce_cluster_config", "metadata",
                 Put(metadata, "session-user", get_username))
      d1 == SetDefault(Put(cd0, "config", c5), "labels", EmptyDict)
      d2 == IF CustomGate(s) THEN apply_users_configs(s, d1) ELSE d1
  IN  Put2(d2, "labels", "goog-dataproc-notebook-spawner",
           IF spawner_host_type # "" THEN spawner_host_type ELSE "unknown")

\* cluster_zone: self.zone, replaced by user_options.get('cluster_zone')
\* whenever a form was submitted
cluster_zone(s) ==
  IF s.user_options # EmptyDict THEN GetZ(s.user_options, "cluster_zone")
  ELSE s.zone

\* variant: project id and name set only when the template omits them
ForceIdentity_default(s, cd0) ==
  LET d1 == SetDefault(SetDefault(cd0, "project_id", s.project),
                       "cluster_name", clustername)
      d2 == SetDefault(d1, "config", EmptyDict)
      d3 == Put(d2, "config", SetDefault(d2["config"], "gce_cluster_config", EmptyDict))
  IN  Put3(d3, "config", "gce_cluster_config", "zone_uri",
           ZoneUri(s.project, FormatZone(cluster_zone(s))))
\* 'Always override project id and name' and 'Sets the zone'
ForceIdentity(s, cd0) ==
  LET d1 == Put(Put(cd0, "project_id", s.project), "cluster_name", clustername)
      d2 == SetDefault(d1, "config", EmptyDict)
      d3 == Put(d2, "config", SetDefault(d2["config"], "gce_cluster_config", EmptyDict))
  IN  Put3(d3, "config", "gce_cluster_config", "zone_uri",
           ZoneUri(s.project, FormatZone(cluster_zone(s))))

\* 'Overwrites some existing data with required values'
StampHubProperties(s, cd0) ==
  LET c0 == cd0["config"]
      c1 == SetDefault(c0, "software_config", EmptyDict)
      c2 == Put(c1, "software_config",
                SetDefault(c1["software_config"], "properties", EmptyDict))
      c3 == SetDefault(c2, "master_config", EmptyDict)
      p0 == c3["software_config"]["properties"]
      p1 == Put(Put(Put(p0, HubArgs, args_str), HubEnv, env_str),
                HubMenuEnabled, "true")
      p2 == Pop(p1, HubEnabled)
      p3 == IF ~show_spawned_clusters_in_notebooks_list
            THEN Put(p2, InstanceTagEnabled, "false") ELSE p2
      p4 == IF gcs_user_folder # "" THEN Put(p3, NotebookGcsDir, gcs_user_folder)
            ELSE p3
  IN  Put(cd0, "config", Put2(c3, "software_config", "properties", p4))

\* variant: the Component Gateway switched on only when the template does
\* not say
ForceAccess_default(s, cd0) ==
  LET c0 == cd0["config"]
      p0 == c0["software_config"]["properties"]
      c1 == IF s.force_single_user \/ Has(p0, exclusive_user_property)
            THEN Put2(c0, "software_config", "properties",
                      Put(p0, exclusive_user_property, s.user_name))
            ELSE c0
      c2 == SetDefault(c1, "endpoint_config", EmptyDict)
  IN  Put(cd0, "config",
          Put(c2, "endpoint_config",
              SetDefault(c2["endpoint_config"], "enable_http_port_access", TRUE)))
\* variant: the user name written only when the operator forces the
\* single-user mode
ForceAccess_operator_only(s, cd0) ==
  LET c0 == cd0["config"]
      p0 == c0["software_config"]["properties"]
      c1 == IF s.force_single_user
            THEN Put2(c0, "software_config", "properties",
                      Put(p0, exclusive_user_property, s.user_name))
            ELSE c0
      c2 == SetDefault(c1, "endpoint_config", EmptyDict)
  IN  Put(cd0, "config", Put2(c2, "endpoint_config", "enable_http_port_access", TRUE))
\* the exclusive-user convergence and the forced Component Gateway
ForceAccess(s, cd0) ==
  LET c0 == cd0["config"]
      p0 == c0["software_config"]["properties"]
      c1 == IF s.force_single_user \/ Has(p0, exclusive_user_property)
            THEN Put2(c0, "software_config", "properties",
                      Put(p0, exclusive_user_property, s.user_name))
            ELSE c0
      c2 == SetDefault(c1, "endpoint_config", EmptyDict)
  IN  Put(cd0, "config", Put2(c2, "endpoint_config", "enable_http_port_access", TRUE))

(***************************************************************************)
(* Image versions and optional components.  An image version is the list   *)
(* of its parts between dashes (split('-')), each part the list of its     *)
(* pieces between dots (split('.')): '1.5-debian10' is                     *)
(* <<<<"1", "5">>, <<"debian10">>>>, '' is <<<<"">>>>.                       *)
(***************************************************************************)
\* str(i) for the numbers the model writes
DecimalText == <<"0", "1", "2", "3", "4", "5", "6", "7", "8", "9", "10",
                 "11", "12", "13", "14", "15">>
\* int(text): [err, val], err for the text int() rejects with ValueError
ParseInt(text) ==
  IF \E i \in DOMAIN DecimalText : DecimalText[i] = text
  THEN [err |-> FALSE,
        val |-> (CHOOSE i \in DOMAIN DecimalText : DecimalText[i] = text) - 1]
  ELSE [err |-> TRUE, val |-> 0]
\* str.lower() of the first piece of a version
Lower(text) == IF text \in {"Preview", "PREVIEW", "preview"} THEN "preview" ELSE text
\* [f'RC{i}' for i in range(1, 12)]
AnacondaCandidates == {"RC" \o DecimalText[i + 1] : i \in 1..11}

\* _image_version_supports_anaconda
image_version_supports_anaconda(image_version) ==
  LET parts == image_version
      major == ParseInt(parts[1][1])
  IN  IF Len(parts[1]) = 1 /\ Lower(parts[1][1]) = "preview" THEN FALSE
      ELSE IF parts[1] = <<"2", "0", "0">> /\ Len(parts) < 3 THEN FALSE
      ELSE IF parts[1] = <<"2", "0", "0">>
              /\ Len(parts[2]) = 1 /\ parts[2][1] \in AnacondaCandidates
      THEN TRUE
      ELSE IF major.err THEN TRUE
      ELSE major.val < 2

\* '1.4-debian9', the version of a request that names neither a version nor
\* a custom image
DefaultImageVersion == <<<<"1", "4">>, <<"debian9">>>>

\* 'if image_version not in software_config'
ResolveImageVersion(s, cd0) ==
  IF Has(cd0["config"]["software_config"], "image_version") THEN cd0
  ELSE Put3(cd0, "config", "software_config", "image_version",
            IF Has(cd0["config"]["master_config"], "image_uri")
            THEN get_image_version(s)
            ELSE DefaultImageVersion)

\* the Component enum of google-cloud-dataproc, for the names the model uses
JUPYTER == 1
ANACONDA == 5
ZEPPELIN == 4
ComponentValue(c) ==
  IF c.isstr
  THEN (IF c.name = "JUPYTER" THEN JUPYTER
        ELSE IF c.name = "ANACONDA" THEN ANACONDA ELSE ZEPPELIN)
  ELSE c.value

\* the optional components: the listed ones as enum values, JUPYTER forced,
\* ANACONDA forced or removed after the image version
NormalizeComponents(s, cd0) ==
  LET sc == SetDefault(cd0["config"]["software_config"], "optional_components", <<>>)
      listed == {ComponentValue(sc["optional_components"][i]) :
                   i \in DOMAIN sc["optional_components"]}
      optional_components ==
        IF s.force_add_jupyter_component
        THEN IF image_version_supports_anaconda(sc["image_version"])
             THEN listed \cup {JUPYTER, ANACONDA}
             ELSE (listed \cup {JUPYTER}) \ {ANACONDA}
        ELSE listed
  IN  Put2(cd0, "config", "software_config",
           Put(sc, "optional_components", optional_components))

(***************************************************************************)
(* Durations.  A duration field holds a text (the list of its characters)  *)
(* or a Duration {'seconds': .., 'nanos': ..}; both are records of one     *)
(* shape: isstr tells which, seconds_is_text marks a Duration whose        *)
(* 'seconds' is the text it was given.                                     *)
(***************************************************************************)
DurationText(chars) ==
  [isstr |-> TRUE, text |-> chars, seconds |-> 0, nanos |-> 0,
   seconds_is_text |-> FALSE]
Duration(seconds, nanos) ==
  [isstr |-> FALSE, text |-> <<>>, seconds |-> seconds, nanos |-> nanos,
   seconds_is_text |-> FALSE]
Digits == {"0", "1", "2", "3", "4", "5", "6", "7", "8", "9"}

RECURSIVE IntOfDigits(_)
\* int(time_span) of a list of digits
IntOfDigits(chars) ==
  IF chars = <<>> THEN 0
  ELSE 10 * IntOfDigits(SubSeq(chars, 1, Len(chars) - 1))
         + ParseInt(chars[Len(chars)]).val
\* int(time_span): ValueError for the empty text and for a text with a
\* character that is no digit
IntOfText(chars) ==
  IF chars = <<>> \/ \E i \in DOMAIN chars : chars[i] \notin Digits
  THEN [err |-> TRUE, val |-> 0]
  ELSE [err |-> FALSE, val |-> IntOfDigits(chars)]

\* to_sec: [err, val, same]; same when the text is returned as it is
to_sec(united) ==
  IF united # <<>>
  THEN LET time_span == SubSeq(united, 1, Len(united) - 1)
           time_unit == united[Len(united)]
           n == IntOfText(time_span)
       IN  [err |-> n.err, same |-> FALSE,
            val |-> IF time_unit = "m" THEN n.val * 60
                    ELSE IF time_unit = "h" THEN n.val * 3600
                    ELSE IF time_unit = "d" THEN n.val * 86400
                    ELSE n.val]
  ELSE [err |-> FALSE, same |-> TRUE, val |-> 0]

\* {'seconds': to_sec(value), 'nanos': 0} for a text, the value itself
\* otherwise (isinstance(value, str))
ConvertDuration(value) ==
  IF value.isstr
  THEN IF to_sec(value.text).same
       THEN [Duration(0, 0) EXCEPT !.seconds_is_text = TRUE]
       ELSE Duration(to_sec(value.text).val, 0)
  ELSE value
\* to_sec raises on this value
DurationFails(value) == value.isstr /\ to_sec(value.text).err

\* convert_string_to_duration: [err, data]
convert_string_to_duration(data) ==
  LET c0 == SetDefault(data["config"], "initialization_actions", <<>>)
      ia == c0["initialization_actions"]
      HasTimeout(i) == Has(ia[i], "execution_timeout")
      c1 == Put(c0, "initialization_actions",
                [i \in DOMAIN ia |->
                   IF HasTimeout(i)
                   THEN Put(ia[i], "execution_timeout",
                            ConvertDuration(ia[i]["execution_timeout"]))
                   ELSE ia[i]])
      c2 == SetDefault(c1, "lifecycle_config", EmptyDict)
      lc == c2["lifecycle_config"]
      lc1 == IF Has(lc, "idle_delete_ttl")
             THEN Put(lc, "idle_delete_ttl", ConvertDuration(lc["idle_delete_ttl"]))
             ELSE lc
      lc2 == IF Has(lc1, "auto_delete_ttl")
             THEN Put(lc1, "auto_delete_ttl", ConvertDuration(lc1["auto_delete_ttl"]))
             ELSE lc1
      fails == \/ \E i \in DOMAIN ia :
                    HasTimeout(i) /\ DurationFails(ia[i]["execution_timeout"])
               \/ Has(lc, "idle_delete_ttl") /\ DurationFails(lc["idle_delete_ttl"])
               \/ Has(lc, "auto_delete_ttl") /\ DurationFails(lc["auto_delete_ttl"])
  IN  IF fails THEN [err |-> "ValueError", data |-> EmptyDict]
      ELSE [err |-> "", data |-> Put(data, "config", Put(c2, "lifecycle_config", lc2))]

\* 'Strip cluster-specific namenode properties'
StripNamenode(cd0) ==
  LET p0 == cd0["config"]["software_config"]["properties"]
  IN  IF p0 # EmptyDict
      THEN Put3(cd0, "config", "software_config", "properties",
                Pop(Pop(p0, NamenodeLifeline), NamenodeServiceRpc))
      ELSE cd0

\* Component.__members__: the names of the enum
ComponentMembers == {"JUPYTER", "ANACONDA", "ZEPPELIN"}
\* _validate_proto on the parsed template: of the fields the model carries
\* it changes the repeated enum optional_components, dropping every entry
\* that is not the name of a member
validate_proto(cd) ==
  IF Has(cd["config"]["software_config"], "optional_components")
  THEN LET oc == cd["config"]["software_config"]["optional_components"]
           IsMember(c) == c.isstr /\ c.name \in ComponentMembers
       IN  Put3(cd, "config", "software_config", "optional_components",
                SelectSeq(oc, IsMember))
  ELSE cd

\* the text _check_uri_geo raises
MsgGeoMismatch == "The location of the uri in the yaml file does not match the Dataproc Hub one."

\* variant: any location is accepted
check_uri_geo_any(uri_data, uri_geo_slice, expected_geo) ==
  IF Len(uri_data) > 1
  THEN IF Len(uri_data) < uri_geo_slice THEN "IndexError" ELSE ""
  ELSE ""
\* _check_uri_geo on uri.split('/'), uri_geo_slice given as 3 for -3: the
\* exception it raises, "" when it returns
check_uri_geo(uri_data, uri_geo_slice, expected_geo) ==
  IF Len(uri_data) > 1
  THEN IF Len(uri_data) < uri_geo_slice THEN "IndexError"
       ELSE IF uri_data[Len(uri_data) + 1 - uri_geo_slice]
                 \notin {expected_geo, "global"}
       THEN MsgGeoMismatch
       ELSE ""
  ELSE ""

\* 'Checks that cluster subnet location matches with the Hub's one'
CheckSubnet(s, cd0) ==
  IF Has(cd0["config"]["gce_cluster_config"], "subnetwork_uri")
  THEN check_uri_geo(cd0["config"]["gce_cluster_config"]["subnetwork_uri"], 3,
                     s.region)
  ELSE ""

\* _build_cluster_config: [err, data]; err names the exception that ends it.
\* The statements run one after the other: each d is the request as the
\* statements before it left it.
build_cluster_config(s) ==
  LET uo == s.user_options
  IN  IF uo # EmptyDict /\ ~TruthyS(GetS(uo, "cluster_type"))
      THEN \* read_gcs_file(None): file_path[0] of None
           [err |-> "TypeError", data |-> EmptyDict]
      ELSE CHOOSE r \in
             {IF d5.err # "" THEN d5
              ELSE IF CheckSubnet(s, d5.data) # ""
              THEN [err |-> CheckSubnet(s, d5.data), data |-> EmptyDict]
              ELSE [err |-> "", data |-> StripNamenode(d5.data)] :
                d5 \in {convert_string_to_duration(d4) :
                d4 \in {NormalizeComponents(s, d3) :
                d3 \in {ForceAccess(s, ResolveImageVersion(s, d2)) :
                d2 \in {StampHubProperties(s, d1) :
                d1 \in {ForceIdentity(s, d0) :
                d0 \in {IF uo # EmptyDict
                        THEN FormPass(s, validate_proto(get_cluster_definition(s)))
                        ELSE s.cluster_data}}}}}}} : TRUE

(***************************************************************************)
(* The control plane and the read helpers of the spawner.                  *)
(***************************************************************************)
States == {"UNKNOWN", "CREATING", "RUNNING", "ERROR", "DELETING", "UPDATING"}
\* endpoint_config of a cluster record: with the Jupyter endpoint, without
\* it, or no endpoint_config at all
Endpoints == {"ok", "no_jupyter", "no_config"}
Absent == [state |-> "ABSENT", ep |-> "no_config"]
NoneC == [state |-> "None", ep |-> "no_config"]
Clusters == [state : States, ep : Endpoints]
\* how one get_cluster call of the client ends when the cluster exists
GetOutcomes == {"ok", "api_error"}
\* exceptions of create_cluster that _create_cluster retries
Retryable == {"PermissionDenied", "TooManyRequests", "ResourceExhausted"}

\* get_cluster: None on NotFound and on any other GoogleAPICallError
get_cluster(c, outcome) ==
  IF outcome = "api_error" THEN NoneC
  ELSE IF c.state = "ABSENT" THEN NoneC
  ELSE c

get_cluster_status(c) == IF c # NoneC THEN c.state ELSE NoneS

\* variant: the test of exists inverted
exists_inverted(c) == c = NoneC
exists(c) == c # NoneC

\* variant: the first status compared with ERROR
IsPendingDeletion_error(status) == status = "ERROR"
\* the test of start() on the first status
IsPendingDeletion(status) == status = "DELETING"

\* variant: no cluster counts as healthy
poll_none_alive(status) ==
  IF status \in {"DELETING", "UNKNOWN"} THEN "1"
  ELSE IF status = "ERROR" THEN "1"
  ELSE IF status = "CREATING" THEN NoneS
  ELSE IF status \in {"RUNNING", "UPDATING"} THEN NoneS
  ELSE NoneS
\* variant: DELETING missing from the first test
poll_deleting_alive(status) ==
  IF status = NoneS \/ status \in {"UNKNOWN"} THEN "1"
  ELSE IF status = "ERROR" THEN "1"
  ELSE IF status = "CREATING" THEN NoneS
  ELSE IF status \in {"RUNNING", "UPDATING"} THEN NoneS
  ELSE NoneS
\* poll(): 1 as "1", None as NoneS
poll(status) ==
  IF status = NoneS \/ status \in {"DELETING", "UNKNOWN"} THEN "1"
  ELSE IF status = "ERROR" THEN "1"
  ELSE IF status = "CREATING" THEN NoneS
  ELSE IF status \in {"RUNNING", "UPDATING"} THEN NoneS
  ELSE NoneS

\* variant: InvalidArgument listed with the retried exceptions
ErrorClass_retry_all(e) ==
  IF e \in Retryable \cup {"InvalidArgument"} THEN "retry"
  ELSE "propagate"
\* the except clauses of _create_cluster: which handler takes the exception
ErrorClass(e) ==
  IF e = "InvalidArgument" THEN "fatal"
  ELSE IF e \in Retryable THEN "retry"
  ELSE "propagate"

\* variant: 'if try_count >= 0'
RetryAllowed_inclusive(tc) == tc >= 0
\* 'if try_count > 0' after the decrement
RetryAllowed(tc) == tc > 0

\* f'{self.region}-{zone_letter}' of change_zone_in_cluster_cfg
TmpZone(s, zone_letter) == ZoneName(s.region, zone_letter)

\* dataproc_locations_list.split(','): the letters, [''] for the empty text
SplitLocations(locs) == IF locs = <<>> THEN <<"">> ELSE locs

\* variant: the loop stops at the first letter that differs
new_zone_index_first(others) == CHOOSE i \in others : \A j \in others : i <= j
\* the loop over locations_list keeps the last letter that differs from the
\* current one
new_zone_index(others) == CHOOSE i \in others : \A j \in others : j <= i

\* change_zone_in_cluster_cfg: the requests it can return (random.choice
\* picks any element of zones_list)
change_zone_in_cluster_cfg(s, cluster_data) ==
  LET current_zone_tmp ==
        LastSegment(cluster_data["config"]["gce_cluster_config"]["zone_uri"])
      current_zone == LastChar(current_zone_tmp)
      locations_list == SplitLocations(s.dataproc_locations_list)
      zones_list == [i \in DOMAIN locations_list |-> TmpZone(s, locations_list[i])]
      others == {i \in DOMAIN locations_list : locations_list[i] # current_zone}
      new_zones ==
        IF others # {}
        THEN {zones_list[new_zone_index(others)]}
        ELSE IF zones_list # <<>>
        THEN {zones_list[i] : i \in DOMAIN zones_list}
        ELSE {current_zone_tmp}
  IN  {Put3(cluster_data, "config", "gce_cluster_config", "zone_uri",
            ZoneUri(s.project, nz)) : nz \in new_zones}

\* the zone a request targets
ZoneOf(cluster_data) ==
  LastSegment(cluster_data["config"]["gce_cluster_config"]["zone_uri"])

(***************************************************************************)
(* Lifecycle calls.                                                        *)
(***************************************************************************)
lifeVars == <<cluster, pc, operation, try_count, lastErr, createLog, deleteLog,
              opLog, firstStatus, budget, faults, seenDeleting>>
vars == <<cfgVars, cluster_definition, built, lifeVars, progVars, hubVars>>

NoResult == [op |-> "none", raised |-> FALSE, value |-> "", got |-> ""]
\* outcome of the last lifecycle call, outcomes of the start() calls
result == IF opLog = <<>> THEN NoResult ELSE opLog[Len(opLog)]
IsStart(r) == r.op = "start"
startLog == SelectSeq(opLog, IsStart)
\* number of the running (or last) start() call
startNo == Len(startLog) + (IF pc = "idle" THEN 0 ELSE 1)

MsgNoProject == "You need to set a project"
MsgPendingDeletion == "Cluster dataprochub-fake is pending deletion."
MsgNoCluster == "Can not get cluster dataprochub-fake information."
MsgNoEndpointConfig == "No endpoint_config set for dataprochub-fake."
MsgNoJupyter == "No Jupyter endpoint configured for dataprochub-fake."
GatewayUrl == "component-gateway-url"

ReadFault(g) == IF g = "api_error" THEN {"get_error"} ELSE {}

\* a lifecycle call ends: by raising value, or by returning value
EndCall(op, raised, value, got) ==
  opLog' = Append(opLog, [op |-> op, raised |-> raised, value |-> value,
                          got |-> got])

\* start() ends
EndStart(raised, value, got) ==
  /\ EndCall("start", raised, value, got)
  /\ firstStatus' = ""
  /\ pc' = "idle"

\* start(): the project test and the first status query
StartBegin ==
  /\ pc = "idle"
  /\ budget > 0
  /\ budget' = budget - 1
  /\ UNCHANGED <<progVars, hubVars>>
  /\ UNCHANGED <<cfgVars, cluster_definition, built, cluster, operation,
                 try_count, lastErr, createLog, deleteLog>>
  /\ IF project = ""
     THEN /\ EndStart(TRUE, MsgNoProject, "")
          /\ faults' = faults
          /\ seenDeleting' = FALSE
     ELSE \E g \in GetOutcomes :
            LET status == get_cluster_status(get_cluster(cluster, g))
            IN  /\ faults' = faults \cup ReadFault(g)
                /\ seenDeleting' = (status = "DELETING")
                /\ IF IsPendingDeletion(status)
                   THEN EndStart(TRUE, MsgPendingDeletion, status)
                   ELSE /\ firstStatus' = status
                        /\ opLog' = opLog
                        /\ pc' = "start_exists"

\* start(): 'if not await self.exists(...)' and create_cluster up to the
\* built request
StartExists ==
  /\ pc = "start_exists"
  /\ UNCHANGED <<progVars, hubVars, seenDeleting>>
  /\ UNCHANGED <<cfgVars, cluster, operation, lastErr, createLog, deleteLog,
                 budget>>
  /\ \E g \in GetOutcomes :
       /\ faults' = faults \cup ReadFault(g)
       /\ IF exists(get_cluster(cluster, g))
          THEN /\ pc' = "start_endpoint"
               /\ UNCHANGED <<cluster_definition, built, try_count, opLog,
                              firstStatus>>
          ELSE LET b == build_cluster_config(self)
               IN  /\ built' = (IF b.err = "" THEN "ok" ELSE b.err)
                   /\ IF b.err = ""
                      THEN /\ cluster_definition' = b.data
                           /\ try_count' = DefaultTryCount
                           /\ pc' = "create_submit"
                           /\ UNCHANGED <<opLog, firstStatus>>
                      ELSE /\ UNCHANGED <<cluster_definition, try_count>>
                           /\ EndStart(TRUE, b.err, firstStatus)

\* _create_cluster: the call of dataproc_client.create_cluster
CreateSubmit ==
  /\ pc = "create_submit"
  /\ createLog' = Append(createLog, [start |-> startNo,
                                     zone |-> ZoneOf(cluster_definition),
                                     outcome |-> "in_flight"])
  /\ pc' = "create_wait"
  /\ UNCHANGED <<progVars, hubVars, seenDeleting>>
  /\ UNCHANGED <<cfgVars, cluster_definition, built, cluster, operation,
                 try_count, lastErr, deleteLog, opLog, firstStatus, budget,
                 faults>>

\* _create_cluster returns or raises: its locals are gone
LeaveCreate ==
  /\ try_count' = DefaultTryCount
  /\ lastErr' = ""

\* how the control plane can answer a create call
CreateOutcomes ==
  (IF cluster.state = "ABSENT" THEN {"ok"} ELSE {"AlreadyExists"})
    \cup createErrors

\* _create_cluster: create_cluster returns the operation or raises
CreateReturn ==
  /\ pc = "create_wait"
  /\ UNCHANGED <<progVars, hubVars, seenDeleting>>
  /\ UNCHANGED <<cfgVars, cluster_definition, built, deleteLog, budget, faults>>
  /\ \E o \in CreateOutcomes :
       /\ createLog' = [createLog EXCEPT ![Len(createLog)].outcome = o]
       /\ IF o = "ok"
          THEN /\ cluster' = [state |-> "CREATING",
                              ep |-> IF Has(cluster_definition["config"],
                                            "endpoint_config")
                                     THEN "ok" ELSE "no_config"]
               /\ operation' = startNo
               /\ pc' = "start_endpoint"
               /\ LeaveCreate
               /\ UNCHANGED <<opLog, firstStatus>>
          ELSE /\ cluster' = cluster
               /\ operation' = operation
               /\ IF ErrorClass(o) = "retry"
                  THEN /\ lastErr' = o
                       /\ pc' = "create_retry"
                       /\ UNCHANGED <<try_count, opLog, firstStatus>>
                  ELSE /\ LeaveCreate
                       /\ EndStart(TRUE, o, firstStatus)

\* _create_cluster: the handler of the retried exceptions (its status query
\* only logs a warning)
CreateRetry ==
  /\ pc = "create_retry"
  /\ UNCHANGED <<progVars, hubVars>>
  /\ UNCHANGED <<cfgVars, built, cluster, operation, createLog, deleteLog,
                 budget>>
  /\ \E g \in GetOutcomes :
       /\ faults' = faults \cup ReadFault(g)
       /\ seenDeleting' =
            (seenDeleting
               \/ get_cluster_status(get_cluster(cluster, g)) = "DELETING")
  /\ IF RetryAllowed(try_count - 1)
     THEN /\ try_count' = try_count - 1
          /\ cluster_definition' \in
               change_zone_in_cluster_cfg(self, cluster_definition)
          /\ pc' = "create_submit"
          /\ UNCHANGED <<lastErr, opLog, firstStatus>>
     ELSE /\ cluster_definition' = cluster_definition
          /\ LeaveCreate
          /\ EndStart(TRUE, lastErr, firstStatus)

\* start(): get_cluster_notebook_endpoint and the return
StartEndpoint ==
  /\ pc = "start_endpoint"
  /\ UNCHANGED <<progVars, hubVars, seenDeleting>>
  /\ UNCHANGED <<cfgVars, cluster_definition, built, cluster, operation,
                 try_count, lastErr, createLog, deleteLog, budget>>
  /\ \E g \in GetOutcomes :
       LET c == get_cluster(cluster, g)
       IN  /\ faults' = faults \cup ReadFault(g)
           /\ IF c = NoneC THEN EndStart(TRUE, MsgNoCluster, firstStatus)
              ELSE IF c.ep = "no_config"
              THEN EndStart(TRUE, MsgNoEndpointConfig, firstStatus)
              ELSE IF c.ep = "no_jupyter"
              THEN EndStart(TRUE, MsgNoJupyter, firstStatus)
              ELSE EndStart(FALSE, GatewayUrl, firstStatus)

\* variant: the user name passed as the cluster name
DeleteRequest_user(s) ==
  [project_id |-> s.project, region |-> s.region, cluster_name |-> get_username]
\* the arguments stop() passes to delete_cluster
DeleteRequest(s) ==
  [project_id |-> s.project, region |-> s.region, cluster_name |-> clustername]

\* stop()
Stop ==
  /\ pc = "idle"
  /\ budget > 0
  /\ budget' = budget - 1
  /\ UNCHANGED <<progVars, hubVars, seenDeleting>>
  /\ UNCHANGED <<cfgVars, cluster_definition, built, pc, operation, try_count,
                 lastErr, createLog, firstStatus>>
  /\ \E g \in GetOutcomes :
       LET c == get_cluster(cluster, g)
       IN  /\ faults' = faults \cup ReadFault(g)
           /\ IF exists(c)
              THEN /\ deleteLog' = Append(deleteLog, DeleteRequest(self))
                   /\ cluster' = [cluster EXCEPT !.state = "DELETING"]
                   /\ EndCall("stop", FALSE, "delete-operation", c.state)
              ELSE /\ UNCHANGED <<deleteLog, cluster>>
                   /\ EndCall("stop", FALSE, NoneS, NoneS)

\* poll()
Poll ==
  /\ pc = "idle"
  /\ budget > 0
  /\ budget' = budget - 1
  /\ UNCHANGED <<progVars, hubVars, seenDeleting>>
  /\ UNCHANGED <<cfgVars, cluster_definition, built, cluster, pc, operation,
                 try_count, lastErr, createLog, deleteLog, firstStatus>>
  /\ \E g \in GetOutcomes :
       LET status == get_cluster_status(get_cluster(cluster, g))
       IN  /\ faults' = faults \cup ReadFault(g)
           /\ EndCall("poll", FALSE, poll(status), status)

(***************************************************************************)
(* The control plane's own steps and other actors.                         *)
(***************************************************************************)
\* a cluster advances: its creation ends, its deletion completes
EnvProgress ==
  /\ \/ cluster.state = "CREATING" /\ \E st \in {"RUNNING", "ERROR"} :
                                        cluster' = [cluster EXCEPT !.state = st]
     \/ cluster.state = "DELETING" /\ cluster' = Absent
  /\ UNCHANGED <<progVars, hubVars, seenDeleting>>
  /\ UNCHANGED <<cfgVars, cluster_definition, built, pc, operation, try_count,
                 lastErr, createLog, deleteLog, opLog, firstStatus, budget,
                 faults>>

\* another actor deletes the cluster
ExternalDelete ==
  /\ cluster.state \in States \ {"DELETING"}
  /\ cluster' = [cluster EXCEPT !.state = "DELETING"]
  /\ faults' = faults \cup {"ext_delete"}
  /\ UNCHANGED <<progVars, hubVars, seenDeleting>>
  /\ UNCHANGED <<cfgVars, cluster_definition, built, pc, operation, try_count,
                 lastErr, createLog, deleteLog, opLog, firstStatus, budget>>

(***************************************************************************)
(* _build_cluster_config called on its own, as the unit tests call it.     *)
(***************************************************************************)
Build ==
  /\ built = "no"
  /\ LET b == build_cluster_config(self)
     IN  /\ built' = (IF b.err = "" THEN "ok" ELSE b.err)
         /\ cluster_definition' = b.data
  /\ UNCHANGED <<progVars, hubVars>>
  /\ UNCHANGED <<cfgVars, lifeVars>>

(***************************************************************************)
(* The progress generators.  Each consumer of _generate_progress is an     *)
(* observer; an action runs one generator from the point where it is       *)
(* suspended (a yield, the sleep) to the next one.                         *)
(***************************************************************************)
\* the page that follows the spawn and a page that is loaded later, in the
\* order in which they attach
Observers == {1, 2}

\* SimpleNamespace(bar=0, logging=set(), start='', yields=[]); the start
\* timestamp only scopes the log query and is left out
NewProgressor == [bar |-> 0, logging |-> {}, yields |-> <<>>]
\* a progress event; entry is the insert id of the log entry it reports (0
\* for the other events), seq numbers the events in the order of creation
Event(progress, message, entry, failed, seq) ==
  [progress |-> progress, message |-> message, entry |-> entry,
   failed |-> failed, seq |-> seq]
\* a generator that was not started
Detached == [pc |-> "detached", idx |-> 0, entries |-> <<>>,
             operation_done |-> FALSE, status |-> NoneS, received |-> <<>>,
             joined |-> 0]
MsgExisting == "Trying to load progress but no cluster being created."

\* math.ceil(x / 4)
Ceil4(x) == (x + 3) \div 4
\* variant: the bar drawn towards 95
BarStep_to95(bar) == bar + Ceil4(95 - bar)
\* spawner_progressor.bar += math.ceil((90 - spawner_progressor.bar) / 4)
BarStep(bar) == bar + Ceil4(90 - bar)

\* the state the generators share and the environment's counters
ProgressState == [prog |-> progressor, sink |-> logSink, created |-> created]
\* the generator ob is suspended at pc after it yielded the events ev
Suspend(ob, at, st, ev) == [ob |-> [ob EXCEPT !.pc = at], st |-> st, ev |-> ev]

\* what operation.done() can answer: its value, or False kept after a
\* GoogleAPICallError
DoneOutcomes == {opState # "RUNNING", FALSE}

\* variant: the generator ends without an event
Terminal_silent(ob, st) == {Suspend(ob, "done", st, <<>>)}
\* progress() after its loop: the event of a failed operation, or the
\* closing event when the cluster is read as RUNNING
Terminal(ob, st) ==
  IF opState = "FAILED"
  THEN {Suspend(ob, "failed_sent", [st EXCEPT !.created = @ + 1],
                <<Event(100, "FAILED", 0, TRUE, st.created + 1)>>)}
  ELSE IF opState = "DONE"
  THEN {LET status == get_cluster_status(get_cluster(cluster, g))
        IN  IF status = "RUNNING"
            THEN Suspend([ob EXCEPT !.status = status], "closing_sent",
                         [st EXCEPT !.created = @ + 1],
                         <<Event(95, "Cluster successfully created", 0, FALSE,
                                 st.created + 1)>>)
            ELSE Suspend([ob EXCEPT !.status = status], "done", st, <<>>) :
          g \in GetOutcomes}
  ELSE {Suspend(ob, "done", st, <<>>)}

RECURSIVE WhileCheck(_, _)
\* variant: a log-driven event is yielded without being appended to yields
ProcessEntries_unrecorded(ob, st) ==
  LET Unseen(id) == id \notin st.prog.logging
      rest == SelectSeq(ob.entries, Unseen)
  IN  IF rest = <<>>
      THEN WhileCheck([ob EXCEPT !.entries = <<>>], st)
      ELSE LET bar == BarStep(st.prog.bar)
               tmp_yield == Event(bar, "method: message", Head(rest), FALSE,
                                  st.created + 1)
           IN  {Suspend([ob EXCEPT !.entries = Tail(rest)], "entries",
                        [st EXCEPT !.prog = [bar |-> bar,
                                             logging |-> @.logging \cup {Head(rest)},
                                             yields |-> @.yields],
                                   !.created = @ + 1],
                        <<tmp_yield>>)}
\* variant: the entries are not looked up in logging
ProcessEntries_unchecked(ob, st) ==
  IF ob.entries = <<>>
  THEN WhileCheck(ob, st)
  ELSE LET bar == BarStep(st.prog.bar)
           tmp_yield == Event(bar, "method: message", Head(ob.entries), FALSE,
                              st.created + 1)
       IN  {Suspend([ob EXCEPT !.entries = Tail(@)], "entries",
                    [st EXCEPT !.prog = [bar |-> bar,
                                         logging |-> @.logging \cup {Head(ob.entries)},
                                         yields |-> Append(@.yields, tmp_yield)],
                               !.created = @ + 1],
                    <<tmp_yield>>)}
\* the loop over the fetched entries, from the entry after the last one
\* yielded: the next entry whose insert id is not in logging moves the bar,
\* is recorded and yielded
ProcessEntries(ob, st) ==
  LET Unseen(id) == id \notin st.prog.logging
      rest == SelectSeq(ob.entries, Unseen)
  IN  IF rest = <<>>
      THEN WhileCheck([ob EXCEPT !.entries = <<>>], st)
      ELSE LET bar == BarStep(st.prog.bar)
               tmp_yield == Event(bar, "method: message", Head(rest), FALSE,
                                  st.created + 1)
           IN  {Suspend([ob EXCEPT !.entries = Tail(rest)], "entries",
                        [st EXCEPT !.prog = [bar |-> bar,
                                             logging |-> @.logging \cup {Head(rest)},
                                             yields |-> Append(@.yields, tmp_yield)],
                                   !.created = @ + 1],
                        <<tmp_yield>>)}
\* list_log_entries: it raises (GoogleAPICallError, RetryError or
\* ValueError: the message is yielded with the bar as it is) or answers with
\* the entries of the sink
FetchLogs(ob, st) ==
  (IF st.sink.failed < st.sink.fail_limit
        /\ st.sink.count + st.sink.failed < st.sink.limit
   THEN {Suspend(ob, "error_sent",
                 [st EXCEPT !.sink.failed = @ + 1, !.created = @ + 1],
                 <<Event(st.prog.bar, "e.message", 0, FALSE, st.created + 1)>>)}
   ELSE {})
    \cup ProcessEntries([ob EXCEPT !.entries = [i \in 1..st.sink.count |-> i]], st)
\* one pass of 'while not operation_done' up to the sleep or, when the
\* operation is done, on to the log query
LoopTop(ob, st) ==
  UNION {IF r THEN FetchLogs([ob EXCEPT !.operation_done = TRUE], st)
         ELSE {Suspend(ob, "sleep", st, <<>>)} : r \in DoneOutcomes}
\* 'while not operation_done'
WhileCheck(ob, st) ==
  IF ob.operation_done THEN Terminal(ob, st) ELSE LoopTop(ob, st)

\* the generator of observer o ran to its next suspension
Step(o, outcomes) ==
  /\ \E out \in outcomes :
       /\ observers' = [observers EXCEPT
                          ![o] = [out.ob EXCEPT !.received = @ \o out.ev]]
       /\ progressor' = out.st.prog
       /\ logSink' = out.st.sink
       /\ created' = out.st.created
       /\ emitted' = IF out.ev # <<>>
                        /\ \A i \in DOMAIN emitted : emitted[i].seq # out.ev[1].seq
                     THEN emitted \o out.ev ELSE emitted
  /\ UNCHANGED <<cfgVars, cluster_definition, built, lifeVars, spawn_pending,
                 opState, hubVars>>

\* _generate_progress is called: up to its first yield, or its return when
\* no spawn is pending or there is no operation
Attach(o) ==
  /\ observers[o].pc = "detached"
  /\ \A q \in Observers : q < o => observers[q].pc # "detached"
  /\ IF ~spawn_pending \/ operation = 0
     THEN Step(o, {Suspend(observers[o], "done", ProgressState, <<>>)})
     ELSE LET yields_start ==
                <<Event(0, "Server requested.", 0, FALSE, created + 1),
                  Event(5, "Operation op1 for cluster uuid", 0, FALSE,
                        created + 2)>>
              st == IF Len(progressor.yields) = 0
                    THEN [ProgressState EXCEPT
                            !.prog = [bar |-> 5,
                                      logging |-> @.logging \cup {0},
                                      yields |-> @.yields \o yields_start],
                            !.created = @ + 2]
                    ELSE ProgressState
          IN  Step(o, {Suspend([observers[o] EXCEPT !.idx = 1,
                                                    !.joined = Len(emitted)],
                               "replay", st, <<st.prog.yields[1]>>)})

\* 'for y in spawner_progressor.yields', then progress() up to its first
\* suspension
ReplayNext(o) ==
  /\ observers[o].pc = "replay"
  /\ LET ob == observers[o]
     IN  IF ob.idx < Len(progressor.yields)
         THEN Step(o, {Suspend([ob EXCEPT !.idx = @ + 1], "replay",
                               ProgressState, <<progressor.yields[ob.idx + 1]>>)})
         ELSE IF operation = 0
         THEN Step(o, {Suspend(ob, "failed_sent",
                               [ProgressState EXCEPT !.created = @ + 1],
                               <<Event(100, MsgExisting, 0, TRUE, created + 1)>>)})
         ELSE Step(o, WhileCheck(ob, ProgressState))

\* the sleep of the loop ends
WakeUp(o) ==
  /\ observers[o].pc = "sleep"
  /\ Step(o, FetchLogs(observers[o], ProgressState))

\* the consumer asks for the event after a log-driven one
NextEntry(o) ==
  /\ observers[o].pc = "entries"
  /\ Step(o, ProcessEntries(observers[o], ProgressState))

\* the consumer asks for the event after the message of an exception:
\* 'continue'
AfterError(o) ==
  /\ observers[o].pc = "error_sent"
  /\ Step(o, WhileCheck(observers[o], ProgressState))

\* the consumer asks for the event after the last one: the generator ends
Finish(o) ==
  /\ observers[o].pc \in {"failed_sent", "closing_sent"}
  /\ Step(o, {Suspend(observers[o], "done", ProgressState, <<>>)})

\* the agent of the cluster writes a log entry
LogAppears ==
  /\ logSink.count + logSink.failed < logSink.limit
  /\ logSink' = [logSink EXCEPT !.count = @ + 1]
  /\ UNCHANGED <<cfgVars, cluster_definition, built, lifeVars, spawn_pending,
                 progressor, opState, observers, emitted, created, hubVars>>

\* the create operation ends, with the cluster running or in error
OperationEnds ==
  /\ operation # 0
  /\ opState = "RUNNING"
  /\ \E st \in {"DONE", "FAILED"} :
       /\ opState' = st
       /\ cluster' = [cluster EXCEPT
                        !.state = IF st = "DONE" THEN "RUNNING" ELSE "ERROR"]
  /\ UNCHANGED <<cfgVars, cluster_definition, built, pc, operation, try_count,
                 lastErr, createLog, deleteLog, opLog, firstStatus, budget,
                 faults, seenDeleting, spawn_pending, progressor, logSink,
                 observers, emitted, created, hubVars>>

\* the spawn attempt is over (the operation ended, the hub stopped the
\* cluster or gave the attempt up) and the hub spawns again on the same
\* spawner object: start() assigns the operation of a new create call, the
\* consumers of the new attempt are new, the new cluster writes new log
\* entries; no statement of start() or stop() touches self.progressor
Respawn ==
  /\ Len(spawns) < MaxRespawns
  /\ operation # 0
  /\ opState # "RUNNING"
  /\ \A o \in Observers : observers[o].pc \in {"detached", "done"}
  /\ observers[1].pc = "done"
  /\ spawns' = Append(spawns, [created |-> created,
                               logging |-> progressor.logging])
  /\ operation' = operation + 1
  /\ opState' = "RUNNING"
  /\ cluster' = [state |-> "CREATING", ep |-> "ok"]
  /\ spawn_pending' = TRUE
  /\ observers' = [o \in Observers |-> Detached]
  /\ logSink' = [logSink EXCEPT !.limit = logSink.count + logSink.failed + 1]
  /\ progressor' = progressor
  /\ UNCHANGED <<cfgVars, cluster_definition, built, pc, try_count, lastErr,
                 createLog, deleteLog, opLog, firstStatus, budget, faults,
                 seenDeleting, emitted, created, server, tenants>>

(***************************************************************************)
(* DataprocHubServer.wait_up (src/dataprocspawner/spawnable.py).           *)
(***************************************************************************)
\* no server object yet: start() has not returned
NoServer == [pc |-> "none", status |-> "unread", err |-> "", calls |-> 0]

\* how a get_cluster call of the client ends for the server object
HubGetOutcomes == {"ok", "PermissionDenied", "ServiceUnavailable"}
\* how a fetch of the HTTP client ends: a 2xx response; an HTTPError with a
\* code below 500 (a redirect that is not followed, a 4xx), with a code from
\* 500 to 598, with the code 599 of a failed connection; an OSError
FetchOutcomes == {"response", "below_500", "server_error", "599", "OSError"}

\* DataprocHubServer.get_cluster and get_cluster_status: None on NotFound
\* only; the caller passes g = "ok" when the client answers or raises NotFound
hub_get_cluster_status(c) == IF c.state = "ABSENT" THEN NoneS ELSE c.state

\* what is_reachable does with its fetch, of either URL
AfterFetch(f) ==
  IF f = "response" THEN [result |-> "response", err |-> ""]
  ELSE IF f = "below_500" THEN [result |-> "response", err |-> ""]
  ELSE IF f = "server_error"
  THEN [result |-> "raised", err |-> "AttributeError"]
  ELSE [result |-> "False", err |-> ""]

\* is_reachable: what it returns or raises, and the status it read
is_reachable(c, g, f) ==
  IF g = "PermissionDenied"
  THEN [result |-> "False", err |-> "", status |-> "unread"]
  ELSE IF g # "ok"
  THEN [result |-> "raised", err |-> g, status |-> "unread"]
  ELSE LET status == hub_get_cluster_status(c)
       IN  IF status = "ERROR"
           THEN [result |-> "raised", err |-> "RuntimeError", status |-> status]
           ELSE [result |-> AfterFetch(f).result, err |-> AfterFetch(f).err,
                 status |-> status]

\* the hub calls wait_up on the server that start() made
WaitUp ==
  /\ server.pc = "none"
  /\ server' = [server EXCEPT !.pc = "waiting"]
  /\ UNCHANGED <<cfgVars, cluster_definition, built, lifeVars, progVars,
                 spawns, tenants>>

\* exponential_backoff calls is_reachable once more
IsReachable ==
  /\ server.pc = "waiting"
  /\ server.calls < MaxReach
  /\ \E g \in HubGetOutcomes, f \in FetchOutcomes :
       LET r == is_reachable(cluster, g, f)
       IN  server' = [pc |-> IF r.result = "False" THEN "waiting"
                             ELSE IF r.result = "response" THEN "up"
                             ELSE "raised",
                      status |-> r.status, err |-> r.err,
                      calls |-> server.calls + 1]
  /\ UNCHANGED <<cfgVars, cluster_definition, built, lifeVars, progVars,
                 spawns, tenants>>

\* exponential_backoff reaches its deadline: TimeoutError
WaitTimeout ==
  /\ server.pc = "waiting"
  /\ server.calls > 0
  /\ server' = [server EXCEPT !.pc = "raised", !.err = "TimeoutError"]
  /\ UNCHANGED <<cfgVars, cluster_definition, built, lifeVars, progVars,
                 spawns, tenants>>

(***************************************************************************)
(* Several users of one hub.                                               *)
(***************************************************************************)
\* the model of one spawner has no other user
NoTenants == [names |-> <<>>, plane |-> {}, log |-> <<>>]

\* characters of user names: a lower-case and an upper-case letter, a dot, a
\* dash and the at sign
NameAlphabet == {"a", "A", ".", "-", "@"}
\* the characters that the pattern [^a-zA-Z0-9=] leaves as they are
KeptChars == {"a", "A"}
\* str.lower() of one character
LowerChar(ch) == IF ch = "A" THEN "a" ELSE ch
\* name.split('@')[0]
BeforeAt(name) ==
  LET ats == {i \in DOMAIN name : name[i] = "@"}
  IN  IF ats = {} THEN name
      ELSE SubSeq(name, 1, (CHOOSE i \in ats : \A j \in ats : i <= j) - 1)
\* get_username(): the part before the first '@', each character outside
\* [a-zA-Z0-9=] replaced by '-'
GetUsername(name) ==
  [i \in DOMAIN BeforeAt(name) |->
     IF BeforeAt(name)[i] \in KeptChars THEN BeforeAt(name)[i] ELSE "-"]
\* clustername() of a spawner without server name and random suffix:
\* cluster_name_pattern 'dataprochub-{}' filled in and lowered
ClusterName(name) ==
  <<"dataprochub-">> \o [i \in DOMAIN GetUsername(name) |->
                           LowerChar(GetUsername(name)[i])]

\* the clusters of the project with the given name
ClustersNamed(cn) == {c \in tenants.plane : c.cluster_name = cn}
\* start() of the spawner of user u on a control plane that answers: the
\* cluster of that name is created when there is none, and its endpoint is
\* returned
TenantStart(u) ==
  /\ Len(tenants.log) < MaxTenantOps
  /\ LET cn == ClusterName(tenants.names[u])
     IN  IF ClustersNamed(cn) = {}
         THEN tenants' = [tenants EXCEPT
                !.plane = @ \cup {[cluster_name |-> cn, owner |-> u]},
                !.log = Append(@, [op |-> "start", user |-> u,
                                   created |-> TRUE, owner |-> u])]
         ELSE \E c \in ClustersNamed(cn) :
                tenants' = [tenants EXCEPT
                  !.log = Append(@, [op |-> "start", user |-> u,
                                     created |-> FALSE, owner |-> c.owner])]
  /\ UNCHANGED <<cfgVars, cluster_definition, built, lifeVars, progVars,
                 server, spawns>>

\* stop() of the spawner of user u: the cluster of that name is deleted when
\* there is one
TenantStop(u) ==
  /\ Len(tenants.log) < MaxTenantOps
  /\ LET cn == ClusterName(tenants.names[u])
     IN  \E c \in ClustersNamed(cn) :
           tenants' = [tenants EXCEPT
             !.plane = @ \ {c},
             !.log = Append(@, [op |-> "stop", user |-> u,
                                created |-> FALSE, owner |-> c.owner])]
  /\ UNCHANGED <<cfgVars, cluster_definition, built, lifeVars, progVars,
                 server, spawns>>

(***************************************************************************)
(* Inputs and initial states.                                              *)
(***************************************************************************)
\* self.zone of the deployment, 'us-central1-a'
DefaultZone == ZoneName(Region, "a")
\* a zone declared by a template and zones submitted by a form
TemplateZone == ZoneName(Region, "b")
FormZones == {ZoneName(Region, "c"), ZoneName("us-east1", "a")}

RECURSIVE SeqsUpTo(_, _)
\* the sequences over S of length at most n
SeqsUpTo(S, n) ==
  IF n = 0 THEN {<<>>}
  ELSE LET shorter == SeqsUpTo(S, n - 1)
       IN  shorter \cup {Append(q, x) : q \in {r \in shorter : Len(r) = n - 1},
                                        x \in S}

\* the union of two dicts with disjoint keys
Merge(d1, d2) == d1 @@ d2

\* templates: what they declare for the zone, for the identity of the cluster
\* and for the software properties
TemplateZoneParts ==
  {EmptyDict,
   [config |-> [gce_cluster_config |->
                  [zone_uri |-> ZoneUri("tpl-project", TemplateZone)]]]}
TemplateIdentityParts ==
  {EmptyDict, [project_id |-> "tpl-project", cluster_name |-> "tpl-cluster"]}
TemplateProperties ==
  {EmptyDict,
   (HubArgs :> "tpl-args") @@ (HubEnv :> "tpl-env")
     @@ (HubMenuEnabled :> "false") @@ (HubEnabled :> "true"),
   (exclusive_user_property :> "other@example.com"),
   (NamenodeLifeline :> "nn:8050") @@ (NamenodeServiceRpc :> "nn:8051")}
\* a template from its three parts ('software_config' is absent from a
\* template without properties and without zone only when the part is EmptyDict)
MakeTemplate(zp, ip, props) ==
  LET c0 == IF Has(zp, "config") THEN zp["config"] ELSE EmptyDict
      c1 == IF props = EmptyDict THEN c0
            ELSE Put(c0, "software_config", [properties |-> props])
  IN  IF c1 = EmptyDict THEN ip ELSE Put(ip, "config", c1)
Templates ==
  {MakeTemplate(zp, ip, props) : zp \in TemplateZoneParts,
                                 ip \in TemplateIdentityParts,
                                 props \in TemplateProperties}

\* submitted forms: each field present or not
FormTypeParts == {EmptyDict, [cluster_type |-> "bucket/config.yaml"],
                  [cluster_type |-> NoneS]}
FormZoneParts == {EmptyDict, [cluster_zone |-> NoneZ]}
                   \cup {[cluster_zone |-> z] : z \in FormZones}
FormExclusiveParts == {EmptyDict, [exclusive_user |-> "on"]}
FormCustomParts == {EmptyDict, [custom_cluster |-> "on"]}
FormPropsParts ==
  {EmptyDict,
   [cluster_props_prefix_0 |-> "dataproc",
    cluster_props_key_0 |-> "jupyter.hub.menu.enabled",
    cluster_props_val_0 |-> "false"],
   [cluster_props_prefix_0 |-> "dataproc",
    cluster_props_key_0 |-> "dataproc.exclusive.user",
    cluster_props_val_0 |-> "other@example.com"],
   [cluster_props_prefix_0 |-> "spark",
    cluster_props_key_0 |-> "spark.executor.cores",
    cluster_props_val_0 |-> "2"]}
Forms ==
  {Merge(Merge(Merge(Merge(t, z), e), c), p) :
     t \in FormTypeParts, z \in FormZoneParts, e \in FormExclusiveParts,
     c \in FormCustomParts, p \in FormPropsParts}

\* the spawner after __init__, whatever other users the hub has
InitOneSpawner ==
  /\ cluster_definition = EmptyDict
  /\ built = "no"
  /\ pc = "idle"
  /\ operation = 0
  /\ try_count = DefaultTryCount
  /\ lastErr = ""
  /\ createLog = <<>>
  /\ deleteLog = <<>>
  /\ opLog = <<>>
  /\ firstStatus = ""
  /\ faults = {}
  /\ seenDeleting = FALSE
  /\ server = NoServer
  /\ spawns = <<>>
  /\ spawn_pending = FALSE
  /\ progressor = NewProgressor
  /\ opState = "RUNNING"
  /\ logSink = [count |-> 0, failed |-> 0, limit |-> 0, fail_limit |-> 0]
  /\ observers = [o \in Observers |-> Detached]
  /\ emitted = <<>>
  /\ created = 0

\* the spawner after __init__, before any lifecycle call
InitSpawner ==
  /\ tenants = NoTenants
  /\ InitOneSpawner

\* the cluster when the spawner is constructed: absent, in any state with the
\* Jupyter endpoint, or running without it
InitialClusters ==
  {Absent} \cup {[state |-> st, ep |-> "ok"] : st \in States}
           \cup {[state |-> "RUNNING", ep |-> e] : e \in Endpoints}

\* the lifecycle: one spawner, any state of the cluster on the control plane
Init ==
  /\ project \in {"", Project}
  /\ zone = DefaultZone
  /\ dataproc_locations_list = <<"a", "b">>
  /\ allow_custom_clusters = FALSE
  /\ force_single_user = FALSE
  /\ force_add_jupyter_component = TRUE
  /\ image_label_version = <<<<"">>>>
  /\ dataproc_default_subnet = <<>>
  /\ template = EmptyDict
  /\ user_options = EmptyDict
  /\ createErrors = {"InvalidArgument", "ResourceExhausted"}
  /\ cluster \in InitialClusters
  /\ budget = MaxOps
  /\ InitSpawner

Next ==
  \/ StartBegin
  \/ StartExists
  \/ CreateSubmit
  \/ CreateReturn
  \/ CreateRetry
  \/ StartEndpoint
  \/ Stop
  \/ Poll
  \/ EnvProgress
  \/ ExternalDelete

Spec == Init /\ [][Next]_vars

\* one start() call under every candidate list and every initial zone
InitRetry ==
  /\ project = Project
  /\ zone \in {ZoneName(Region, l) : l \in Letters} \cup {ZoneName("us-east1", "a")}
  /\ dataproc_locations_list \in SeqsUpTo(Letters, MaxLocs)
  /\ allow_custom_clusters = FALSE
  /\ force_single_user = FALSE
  /\ force_add_jupyter_component = TRUE
  /\ image_label_version = <<<<"">>>>
  /\ dataproc_default_subnet = <<>>
  /\ template = EmptyDict
  /\ user_options \in {EmptyDict, [cluster_type |-> "bucket/config.yaml"]}
  /\ createErrors = {"InvalidArgument"} \cup Retryable
  /\ cluster \in {Absent, [state |-> "RUNNING", ep |-> "ok"]}
  /\ budget = 1
  /\ InitSpawner

NextRetry ==
  \/ StartBegin
  \/ StartExists
  \/ CreateSubmit
  \/ CreateReturn
  \/ CreateRetry
  \/ StartEndpoint
  \/ ExternalDelete

SpecRetry == InitRetry /\ [][NextRetry]_vars

\* _build_cluster_config on every template, form and operator setting
InitBuild ==
  /\ project = Project
  /\ zone = DefaultZone
  /\ dataproc_locations_list = <<>>
  /\ allow_custom_clusters \in BOOLEAN
  /\ force_single_user \in BOOLEAN
  /\ force_add_jupyter_component = TRUE
  /\ image_label_version = <<<<"">>>>
  /\ dataproc_default_subnet = <<>>
  /\ template \in Templates
  /\ user_options \in Forms
  /\ createErrors = {}
  /\ cluster = Absent
  /\ budget = 0
  /\ InitSpawner

NextBuild == Build

SpecBuild == InitBuild /\ [][NextBuild]_vars

\* image versions: those of the unit tests, the release candidates of 2.0.0
\* with and without the suffix of the operating system, and texts that are
\* no version
ReleaseCandidates ==
  {<<<<"2", "0", "0">>, <<"RC" \o DecimalText[i + 1]>>, <<"debian10">>>> : i \in 1..MaxRC}
    \cup {<<<<"2", "0", "0">>, <<"RC" \o DecimalText[i + 1]>>>> : i \in 1..MaxRC}
ImageVersions ==
  ReleaseCandidates \cup
  {<<<<"1", "3">>>>, <<<<"1", "3">>, <<"debian9">>>>,
   <<<<"1", "4", "16">>>>, <<<<"1", "5">>, <<"debian10">>>>,
   <<<<"1", "5", "5">>, <<"debian10">>>>,
   <<<<"2">>>>, <<<<"2", "0">>>>, <<<<"2", "0">>, <<"ubuntu18">>>>,
   <<<<"2", "0", "0">>>>, <<<<"2", "0", "0">>, <<"debian10">>>>,
   <<<<"2", "0", "1">>>>, <<<<"2", "3", "0">>>>, <<<<"3", "1">>, <<"debian11">>>>,
   <<<<"preview">>>>, <<<<"Preview">>, <<"debian10">>>>,
   <<<<"weird">>, <<"unexpected">>, <<"version">>, <<"124", "3", "v2", "2020">>,
     <<"02">>, <<"15">>>>,
   <<<<"1", "3", "weird">>, <<"version">>, <<"again">>>>,
   <<<<"">>>>}
\* the optional components a template lists, by name or by enum value
ComponentByName(n) == [isstr |-> TRUE, name |-> n, value |-> 0]
ComponentByValue(v) == [isstr |-> FALSE, name |-> "", value |-> v]
ComponentLists ==
  {<<>>, <<ComponentByName("JUPYTER")>>, <<ComponentByName("ANACONDA")>>,
   <<ComponentByValue(ANACONDA)>>,
   <<ComponentByName("JUPYTER"), ComponentByName("ANACONDA")>>,
   <<ComponentByName("ANACONDA"), ComponentByValue(ANACONDA),
     ComponentByName("ZEPPELIN")>>}
\* what a template declares for the software: nothing, a version, a version
\* and components, or a custom image
TemplateSoftwareParts ==
  {EmptyDict}
    \cup {[config |-> [software_config |-> [image_version |-> v]]] :
            v \in ImageVersions}
    \cup {[config |-> [software_config |->
                         [image_version |-> v, optional_components |-> cl]]] :
            v \in ImageVersions, cl \in ComponentLists}
    \cup {[config |-> [software_config |-> [optional_components |-> cl],
                       master_config |-> [image_uri |->
                         "projects/p/global/images/custom"]]] :
            cl \in ComponentLists}
\* what a template declares for the Component Gateway
TemplateEndpointParts ==
  {EmptyDict, [endpoint_config |-> EmptyDict],
   [endpoint_config |-> [enable_http_port_access |-> FALSE]],
   [endpoint_config |-> [enable_http_port_access |-> TRUE]]}
ComponentTemplates ==
  {IF ep = EmptyDict THEN sp
   ELSE Put(sp, "config",
            Merge(IF Has(sp, "config") THEN sp["config"] ELSE EmptyDict, ep)) :
     sp \in TemplateSoftwareParts, ep \in TemplateEndpointParts}

\* no form, a form that only picks the template, and forms of a custom
\* cluster that set the image version or a custom image
ComponentForms ==
  LET base == [cluster_type |-> "bucket/config.yaml",
               cluster_zone |-> ZoneName(Region, "c")]
      custom == Merge(base, [custom_cluster |-> "on"])
  IN  {EmptyDict, base,
       Merge(custom, [image_version |-> <<<<"2", "0", "0">>, <<"debian10">>>>]),
       Merge(custom, [image_version |-> <<<<"1", "5">>, <<"debian10">>>>]),
       Merge(custom, [image_version |-> <<<<"custom">>>>,
                      custom_image |-> "projects/p/global/images/custom"])}

\* the build under every image version, list of components and declaration
\* of the Component Gateway
InitComponents ==
  /\ project = Project
  /\ zone = DefaultZone
  /\ dataproc_locations_list = <<>>
  /\ allow_custom_clusters \in BOOLEAN
  /\ force_single_user = FALSE
  /\ force_add_jupyter_component \in BOOLEAN
  /\ image_label_version \in {<<<<"">>>>, <<<<"2", "0", "0">>, <<"debian10">>>>}
  /\ dataproc_default_subnet = <<>>
  /\ template \in ComponentTemplates
  /\ user_options \in ComponentForms
  /\ createErrors = {}
  /\ cluster = Absent
  /\ budget = 0
  /\ InitSpawner

SpecComponents == InitComponents /\ [][NextBuild]_vars

\* the string patterns of subnetworkUri, split at the slashes: the full URL,
\* the partial URLs and the bare name; the last one is no pattern of the API
SubnetLocations == {Region, "europe-west1", "global"}
SubnetUris ==
  {<<"https:", "", "www.googleapis.com", "compute", "v1", "projects", "p",
     "regions", r, "subnetworks", "sub0">> : r \in SubnetLocations}
    \cup {<<"projects", "p", "regions", r, "subnetworks", "sub0">> :
            r \in SubnetLocations}
    \cup {<<"regions", r, "subnetworks", "sub0">> : r \in SubnetLocations}
    \cup {<<"sub0">>, <<"subnetworks", "sub0">>}
SubnetTemplates ==
  {EmptyDict,
   [config |-> [gce_cluster_config |-> [network_uri |-> <<"default">>]]]}
    \cup {[config |-> [gce_cluster_config |-> [subnetwork_uri |-> u]]] :
            u \in SubnetUris}

\* one start() call under every subnetwork of the template and of the
\* deployment
InitGeo ==
  /\ project = Project
  /\ zone = DefaultZone
  /\ dataproc_locations_list = <<>>
  /\ allow_custom_clusters = FALSE
  /\ force_single_user = FALSE
  /\ force_add_jupyter_component = TRUE
  /\ image_label_version = <<<<"">>>>
  /\ dataproc_default_subnet \in {<<>>} \cup SubnetUris
  /\ template \in SubnetTemplates
  /\ user_options \in {EmptyDict, [cluster_type |-> "bucket/subnet.yaml",
                                   cluster_zone |-> ZoneName(Region, "c")]}
  /\ createErrors = {}
  /\ cluster \in {Absent, [state |-> "RUNNING", ep |-> "ok"]}
  /\ budget = 1
  /\ InitSpawner

NextGeo ==
  \/ StartBegin
  \/ StartExists
  \/ CreateSubmit
  \/ CreateReturn
  \/ StartEndpoint

SpecGeo == InitGeo /\ [][NextGeo]_vars

\* the spawner and the environment when the first consumer attaches: the
\* sink can receive entries and fail queries limit times in all, and fail
\* fail_limit queries
InitObserved(limit, fail_limit) ==
  /\ project = Project
  /\ zone = DefaultZone
  /\ dataproc_locations_list = <<>>
  /\ allow_custom_clusters = FALSE
  /\ force_single_user = FALSE
  /\ force_add_jupyter_component = TRUE
  /\ image_label_version = <<<<"">>>>
  /\ dataproc_default_subnet = <<>>
  /\ template = EmptyDict
  /\ user_options = EmptyDict
  /\ createErrors = {}
  /\ budget = 0
  /\ cluster_definition = EmptyDict
  /\ built = "no"
  /\ pc = "idle"
  /\ cluster = IF operation = 0 THEN Absent
               ELSE [state |-> "CREATING", ep |-> "ok"]
  /\ try_count = DefaultTryCount
  /\ lastErr = ""
  /\ createLog = <<>>
  /\ deleteLog = <<>>
  /\ opLog = <<>>
  /\ firstStatus = ""
  /\ faults = {}
  /\ seenDeleting = FALSE
  /\ server = NoServer
  /\ spawns = <<>>
  /\ tenants = NoTenants
  /\ progressor = NewProgressor
  /\ opState = "RUNNING"
  /\ logSink = [count |-> 0, failed |-> 0, limit |-> limit,
                fail_limit |-> fail_limit]
  /\ observers = [o \in Observers |-> Detached]
  /\ emitted = <<>>
  /\ created = 0

\* a spawn whose create call was made, or not, observed by consumers that
\* attach at any time
InitProgress ==
  /\ operation \in {0, 1}
  /\ spawn_pending \in BOOLEAN
  /\ InitObserved(MaxLogs, MaxLogs)

NextProgress ==
  \/ \E o \in Observers : Attach(o)
  \/ \E o \in Observers : ReplayNext(o)
  \/ \E o \in Observers : WakeUp(o)
  \/ \E o \in Observers : NextEntry(o)
  \/ \E o \in Observers : AfterError(o)
  \/ \E o \in Observers : Finish(o)
  \/ LogAppears
  \/ OperationEnds

SpecProgress == InitProgress /\ [][NextProgress]_vars

\* the consumer of a generator keeps asking for the next event, and the
\* sleep of the loop ends
ObserverStep(o) ==
  Attach(o) \/ ReplayNext(o) \/ WakeUp(o) \/ NextEntry(o) \/ AfterError(o)
    \/ Finish(o)
SpecProgressLive ==
  SpecProgress /\ \A o \in Observers : WF_vars(ObserverStep(o))

\* a pending spawn followed by one consumer while the agent writes its log
InitBar ==
  /\ operation = 1
  /\ spawn_pending = TRUE
  /\ InitObserved(MaxBarLogs, 0)

NextBar ==
  \/ Attach(1)
  \/ ReplayNext(1)
  \/ WakeUp(1)
  \/ NextEntry(1)
  \/ Finish(1)
  \/ LogAppears
  \/ OperationEnds

SpecBar == InitBar /\ [][NextBar]_vars

\* the lifecycle of a spawner that starts without a cluster, on a control
\* plane that accepts every create call, so that no create is retried
InitOwned ==
  /\ project = Project
  /\ zone = DefaultZone
  /\ dataproc_locations_list = <<"a", "b">>
  /\ allow_custom_clusters = FALSE
  /\ force_single_user = FALSE
  /\ force_add_jupyter_component = TRUE
  /\ image_label_version = <<<<"">>>>
  /\ dataproc_default_subnet = <<>>
  /\ template = EmptyDict
  /\ user_options = EmptyDict
  /\ createErrors = {}
  /\ cluster = Absent
  /\ budget = MaxCacheOps
  /\ InitSpawner

NextOwned ==
  \/ StartBegin
  \/ StartExists
  \/ CreateSubmit
  \/ CreateReturn
  \/ StartEndpoint
  \/ Stop
  \/ Poll
  \/ EnvProgress
  \/ ExternalDelete

SpecOwned == InitOwned /\ [][NextOwned]_vars

\* a spawn followed by consumers, and a second spawn of the same spawner
InitRespawn ==
  /\ operation = 1
  /\ spawn_pending = TRUE
  /\ InitObserved(1, 0)

NextRespawn ==
  \/ \E o \in Observers : Attach(o)
  \/ \E o \in Observers : ReplayNext(o)
  \/ \E o \in Observers : WakeUp(o)
  \/ \E o \in Observers : NextEntry(o)
  \/ \E o \in Observers : Finish(o)
  \/ LogAppears
  \/ OperationEnds
  \/ Respawn

SpecRespawn == InitRespawn /\ [][NextRespawn]_vars

\* the user names of the model
UserNames == SeqsUpTo(NameAlphabet, MaxNameLen) \ {<<>>}

\* two users of one hub, with different names
InitTenants ==
  /\ project = Project
  /\ zone = DefaultZone
  /\ dataproc_locations_list = <<>>
  /\ allow_custom_clusters = FALSE
  /\ force_single_user = FALSE
  /\ force_add_jupyter_component = TRUE
  /\ image_label_version = <<<<"">>>>
  /\ dataproc_default_subnet = <<>>
  /\ template = EmptyDict
  /\ user_options = EmptyDict
  /\ createErrors = {}
  /\ cluster = Absent
  /\ budget = 0
  /\ \E n1, n2 \in UserNames :
       /\ n1 # n2
       /\ tenants = [names |-> <<n1, n2>>, plane |-> {}, log |-> <<>>]
  /\ InitOneSpawner

NextTenants ==
  \/ \E u \in {1, 2} : TenantStart(u)
  \/ \E u \in {1, 2} : TenantStop(u)

SpecTenants == InitTenants /\ [][NextTenants]_vars

\* wait_up on a cluster in any state, while the control plane and other
\* actors go on
InitWait ==
  /\ project = Project
  /\ zone = DefaultZone
  /\ dataproc_locations_list = <<>>
  /\ allow_custom_clusters = FALSE
  /\ force_single_user = FALSE
  /\ force_add_jupyter_component = TRUE
  /\ image_label_version = <<<<"">>>>
  /\ dataproc_default_subnet = <<>>
  /\ template = EmptyDict
  /\ user_options = EmptyDict
  /\ createErrors = {}
  /\ cluster \in InitialClusters
  /\ budget = 0
  /\ InitSpawner

NextWait ==
  \/ WaitUp
  \/ IsReachable
  \/ WaitTimeout
  \/ EnvProgress
  \/ ExternalDelete

SpecWait == InitWait /\ [][NextWait]_vars

(***************************************************************************)
(* Properties.                                                             *)
(***************************************************************************)
\* the number, among the start() calls, of the call that ended as opLog[i]
StartIndex(i) == Cardinality({j \in 1..i : opLog[j].op = "start"})
\* the create calls made by the k-th start() call
CreatesOfStart(k) == {i \in DOMAIN createLog : createLog[i].start = k}
\* the control plane refused a create call
EnvCreateFailure ==
  \E i \in DOMAIN createLog :
    createLog[i].outcome \in {"InvalidArgument"} \cup Retryable
\* every read was answered, every submitted create was accepted and nobody
\* else deleted the cluster
CleanEnv == faults = {} /\ ~EnvCreateFailure
\* a step that ends a call of the given hook
CallEnds(op) == Len(opLog') = Len(opLog) + 1 /\ opLog'[Len(opLog')].op = op
\* the k-th start() call ended after create calls that all failed with a
\* retried class of error
AllCreatesRefused(k) ==
  /\ k <= Len(startLog)
  /\ CreatesOfStart(k) # {}
  /\ \A i \in CreatesOfStart(k) : createLog[i].outcome \in Retryable
\* the zones targeted by the create calls of the k-th start() call
ZonesOfStart(k) == {createLog[i].zone : i \in CreatesOfStart(k)}
\* the zone of the first create call of the k-th start() call
FirstZoneOfStart(k) ==
  createLog[CHOOSE i \in CreatesOfStart(k) : \A j \in CreatesOfStart(k) : i <= j].zone

C2_PendingDeletion ==
  /\ pc # "idle" => firstStatus # "DELETING"
  /\ \A i \in DOMAIN opLog :
       (opLog[i].op = "start" /\ opLog[i].got = "DELETING") =>
         /\ opLog[i].raised
         /\ opLog[i].value = MsgPendingDeletion
         /\ CreatesOfStart(StartIndex(i)) = {}
         /\ operation # StartIndex(i)

C2_Witness ==
  \E i \in DOMAIN opLog :
    /\ opLog[i].op = "start" /\ opLog[i].got = "DELETING"
    /\ opLog[i].value = MsgPendingDeletion
    /\ createLog = <<>>

\* C3: poll() returns None when the control plane reports CREATING, RUNNING
\* or UPDATING, and 1 when it reports ERROR, DELETING or UNKNOWN or when the
\* cluster is absent; a poll() call issues no create and no delete call.
C3_PollMapping ==
  [][CallEnds("poll") =>
       LET r == opLog'[Len(opLog')]
       IN  /\ r.got \in {"CREATING", "RUNNING", "UPDATING"} => r.value = NoneS
           /\ r.got \in {"ERROR", "DELETING", "UNKNOWN"} => r.value = "1"
           /\ cluster.state = "ABSENT" => r.value = "1"
           /\ createLog' = createLog
           /\ deleteLog' = deleteLog
           /\ cluster' = cluster]_vars

C3_Witness ==
  /\ Len(opLog) = 2
  /\ opLog[1].op = "poll" /\ opLog[1].got = "RUNNING" /\ opLog[1].value = NoneS
  /\ opLog[2].op = "poll" /\ opLog[2].got = "DELETING" /\ opLog[2].value = "1"

\* C4: when the read made by poll() fails with a generic API error while the
\* cluster exists, poll() returns None (pending) and not 1.
C4_PollReadFailure ==
  [][(CallEnds("poll") /\ cluster.state # "ABSENT"
        /\ opLog'[Len(opLog')].got = NoneS) =>
       opLog'[Len(opLog')].value = NoneS]_vars

C6_RetryBudget ==
  /\ \A i \in DOMAIN createLog :
       createLog[i].outcome = "in_flight" => i = Len(createLog)
  /\ \A k \in 1..startNo : Cardinality(CreatesOfStart(k)) <= DefaultTryCount
  /\ \A k \in 1..Len(startLog) :
       AllCreatesRefused(k) =>
         /\ Cardinality(CreatesOfStart(k)) = 3
         /\ startLog[k].raised
         /\ \E i \in CreatesOfStart(k) :
              /\ \A j \in CreatesOfStart(k) : j <= i
              /\ startLog[k].value = createLog[i].outcome

C6_Witness ==
  /\ Len(startLog) = 1
  /\ AllCreatesRefused(1)
  /\ Len(createLog) = 3
  /\ createLog[1].outcome = "ResourceExhausted"
  /\ createLog[2].outcome = "PermissionDenied"
  /\ createLog[3].outcome = "TooManyRequests"
  /\ startLog[1].raised /\ startLog[1].value = "TooManyRequests"

\* C7 as stated: the three create calls of a start() call that are all
\* refused target at most 2 distinct zones, for every candidate list and
\* every initial zone.
C7_AtMostTwoZones ==
  \A k \in 1..Len(startLog) :
    AllCreatesRefused(k) => Cardinality(ZonesOfStart(k)) <= 2

\* the letters of the candidate list
CandidateLetters ==
  {SplitLocations(dataproc_locations_list)[i] :
     i \in DOMAIN SplitLocations(dataproc_locations_list)}
\* the zone of the last candidate letter, and the zone of the last candidate
\* letter that differs from it
LastTwoCandidateZones ==
  LET locs == SplitLocations(dataproc_locations_list)
      last == locs[Len(locs)]
      rest == {i \in DOMAIN locs : locs[i] # last}
  IN  {ZoneName(Region, last)}
        \cup (IF rest = {} THEN {}
              ELSE {ZoneName(Region, locs[CHOOSE i \in rest : \A j \in rest : j <= i])})
\* the configurations under which a refused start() stays within two zones
StaysInTwoZones(k) ==
  \/ Cardinality(CandidateLetters) <= 1
  \/ FirstZoneOfStart(k) \in LastTwoCandidateZones

\* C7 amended: the three create calls of a start() call that are all refused
\* target at most 2 distinct zones when the candidate list names at most one
\* letter, or when the initial zone is the zone of the last candidate letter
\* or of the last candidate letter that differs from it; under every other
\* candidate list and initial zone they target 3 distinct zones.
C7_TwoZonesOfLastCandidates ==
  \A k \in 1..Len(startLog) :
    AllCreatesRefused(k) =>
      IF StaysInTwoZones(k)
      THEN Cardinality(ZonesOfStart(k)) <= 2
      ELSE Cardinality(ZonesOfStart(k)) = 3

\* the list 'a,b' and the initial zone us-central1-a: the zones a, b, a
C7_Witness ==
  /\ Len(startLog) = 1
  /\ AllCreatesRefused(1)
  /\ dataproc_locations_list = <<"a", "b">>
  /\ StaysInTwoZones(1)
  /\ createLog[1].zone = ZoneName(Region, "a")
  /\ createLog[2].zone = ZoneName(Region, "b")
  /\ createLog[3].zone = ZoneName(Region, "a")

\* C8: a create call refused with InvalidArgument is the last create call of
\* its start() call, which raises the message of that error at once; the
\* request keeps the zone of that call, and when it was the first call of the
\* start() it is the only one.  (The request is compared until a later
\* start() call builds a new one.)
C8_InvalidArgumentFatal ==
  \A i \in DOMAIN createLog :
    createLog[i].outcome = "InvalidArgument" =>
      LET k == createLog[i].start
      IN  /\ \A j \in CreatesOfStart(k) : j <= i
          /\ k <= Len(startLog)
          /\ startLog[k].raised
          /\ startLog[k].value = "InvalidArgument"
          /\ (k = startNo => ZoneOf(cluster_definition) = createLog[i].zone)
          /\ (\A j \in CreatesOfStart(k) : i <= j) =>
               Cardinality(CreatesOfStart(k)) = 1

C8_Witness ==
  /\ Len(createLog) = 1
  /\ createLog[1].outcome = "InvalidArgument"
  /\ Len(startLog) = 1
  /\ startLog[1].value = "InvalidArgument"
  /\ ZoneOf(cluster_definition) = ZoneOf(build_cluster_config(self).data)

\* C9: every request built from a template and a form has the configured
\* project as project_id, the cluster name of the spawner as cluster_name, one
\* zone_uri naming one zone, and the properties dataproc:jupyter.hub.args,
\* dataproc:jupyter.hub.env and dataproc:jupyter.hub.menu.enabled = 'true'.
C9_CoreFields ==
  built = "ok" =>
    /\ Has(cluster_definition, "project_id")
    /\ cluster_definition["project_id"] = project
    /\ Has(cluster_definition, "cluster_name")
    /\ cluster_definition["cluster_name"] = clustername
    /\ Has(cluster_definition["config"]["gce_cluster_config"], "zone_uri")
    /\ LET uri == cluster_definition["config"]["gce_cluster_config"]["zone_uri"]
       IN  Len(uri) = 4 /\ uri[3] = "zones" /\ uri[2] = project
    /\ LET props == cluster_definition["config"]["software_config"]["properties"]
       IN  /\ {HubArgs, HubEnv, HubMenuEnabled} \subseteq DOMAIN props
           /\ props[HubArgs] = args_str
           /\ props[HubEnv] = env_str
           /\ props[HubMenuEnabled] = "true"

\* a template that sets the identity and the hub properties, and a form that
\* sets the menu flag through a property triple, were overridden
C9_Witness ==
  /\ built = "ok"
  /\ Has(template, "project_id") /\ template["project_id"] # project
  /\ Has(template, "config") /\ Has(template["config"], "software_config")
  /\ Has(template["config"]["software_config"]["properties"], HubMenuEnabled)
  /\ allow_custom_clusters /\ Has(user_options, "custom_cluster")
  /\ GetS(user_options, "cluster_props_key_0") = "jupyter.hub.menu.enabled"
  /\ cluster_definition["project_id"] = project

\* the zone a template declares, NoneZ when it declares none
TemplateZoneOf(t) ==
  IF Has(t, "config") /\ Has(t["config"], "gce_cluster_config")
     /\ Has(t["config"]["gce_cluster_config"], "zone_uri")
  THEN LastSegment(t["config"]["gce_cluster_config"]["zone_uri"])
  ELSE NoneZ

\* C10: the zone of the built request is the zone submitted by the form when
\* the form gives one, else the zone the template declares when it declares
\* one, else the default zone of the operator.
C10_ZonePriority ==
  built = "ok" =>
    ZoneOf(cluster_definition) =
      IF GetZ(user_options, "cluster_zone") # NoneZ
      THEN GetZ(user_options, "cluster_zone")
      ELSE IF TemplateZoneOf(template) # NoneZ THEN TemplateZoneOf(template)
      ELSE zone

\* durations as templates give them: texts of digits and unit letters, and
\* Durations
DurationChars == {"0", "1", "6", "m", "h", "d", "s"}
DurationInputs ==
  {DurationText(t) : t \in SeqsUpTo(DurationChars, MaxDurLen)}
    \cup {Duration(600, 0), Duration(15, 5)}
\* a template with one duration, in an initialization action (followed by an
\* action with a Duration and one without timeout), or as a time to live
DurationTemplates ==
  {[config |-> [initialization_actions |->
      <<[executable_file |-> "gs://bucket/init.sh", execution_timeout |-> d],
        [executable_file |-> "gs://bucket/second.sh",
         execution_timeout |-> Duration(600, 0)],
        [executable_file |-> "gs://bucket/third.sh"]>>]] : d \in DurationInputs}
    \cup {[config |-> [lifecycle_config |-> [idle_delete_ttl |-> d]]] :
            d \in DurationInputs}
    \cup {[config |-> [lifecycle_config |-> [auto_delete_ttl |-> d]]] :
            d \in DurationInputs}

\* the build under every duration
InitDuration ==
  /\ project = Project
  /\ zone = DefaultZone
  /\ dataproc_locations_list = <<>>
  /\ allow_custom_clusters = FALSE
  /\ force_single_user = FALSE
  /\ force_add_jupyter_component = TRUE
  /\ image_label_version = <<<<"">>>>
  /\ dataproc_default_subnet = <<>>
  /\ template \in DurationTemplates
  /\ user_options \in {EmptyDict, [cluster_type |-> "bucket/duration.yaml",
                                    cluster_zone |-> ZoneName(Region, "c")]}
  /\ createErrors = {}
  /\ cluster = Absent
  /\ budget = 0
  /\ InitSpawner

SpecDuration == InitDuration /\ [][NextBuild]_vars

BuiltImageVersion == cluster_definition["config"]["software_config"]["image_version"]
\* the optional components of the built request
BuiltComponents ==
  cluster_definition["config"]["software_config"]["optional_components"]
\* the classification of image versions the documentation gives: preview
\* no, 2.0.0 no, 2.0.0-RC1 .. 2.0.0-RC11 yes, later release candidates no,
\* a major version below 2 yes, 2 or more no, no version yes
DocumentedAnacondaSupport(v) ==
  IF Len(v[1]) = 1 /\ Lower(v[1][1]) = "preview" THEN FALSE
  ELSE IF v[1] = <<"2", "0", "0">> /\ Len(v) = 1 THEN FALSE
  ELSE IF v[1] = <<"2", "0", "0">> /\ Len(v[2]) = 1
          /\ v[2][1] \in {"RC" \o DecimalText[i + 1] : i \in 1..11}
  THEN TRUE
  ELSE IF ParseInt(v[1][1]).err THEN TRUE
  ELSE ParseInt(v[1][1]).val < 2

\* C12: image versions with a major version below 2 and the release
\* candidates 2.0.0-RC1 to 2.0.0-RC11 (with or without a suffix) support
\* ANACONDA; 'preview', '2.0.0', later release candidates and every other
\* version with major version 2 or more do not; a text that is no version
\* does.  Observed on the build that forces the components: ANACONDA is in
\* the built request exactly when the version is classified as supporting it.
C12_AnacondaClassification ==
  (built = "ok" /\ force_add_jupyter_component) =>
    ((ANACONDA \in BuiltComponents) <=> DocumentedAnacondaSupport(BuiltImageVersion))

\* C13: the optional components of the built request contain ANACONDA only
\* if the resolved image version supports it, under every operator setting.
C13_AnacondaOnlyIfSupported ==
  built = "ok" =>
    (ANACONDA \in BuiltComponents =>
       image_version_supports_anaconda(BuiltImageVersion))

\* the duration fields of a request: <<place, value>> for each one present
DurationFields(cd) ==
  LET c == IF Has(cd, "config") THEN cd["config"] ELSE EmptyDict
      ia == IF Has(c, "initialization_actions") THEN c["initialization_actions"]
            ELSE <<>>
      lc == IF Has(c, "lifecycle_config") THEN c["lifecycle_config"] ELSE EmptyDict
  IN  {<<DecimalText[i + 1], ia[i]["execution_timeout"]>> :
         i \in {j \in DOMAIN ia : Has(ia[j], "execution_timeout")}}
        \cup {<<k, lc[k]>> : k \in {"idle_delete_ttl", "auto_delete_ttl"} \cap DOMAIN lc}
\* a text of digits
IsNumber(chars) == chars # <<>> /\ \A i \in DOMAIN chars : chars[i] \in Digits
\* the seconds the documentation gives for a text: N and a unit, or bare N
\* (-1 for every other text)
DocumentedSeconds(chars) ==
  LET front == SubSeq(chars, 1, Len(chars) - 1)
  IN  IF IsNumber(chars) THEN IntOfDigits(chars)
      ELSE IF chars # <<>> /\ IsNumber(front) /\ chars[Len(chars)] \in {"m", "h", "d"}
      THEN IntOfDigits(front) * (IF chars[Len(chars)] = "m" THEN 60
                                 ELSE IF chars[Len(chars)] = "h" THEN 3600
                                 ELSE 86400)
      ELSE -1

\* C14: a duration given as the text of a number N followed by m, h or d, or
\* as bare seconds N, is built as {seconds: N*60 | N*3600 | N*86400 | N,
\* nanos: 0}; a Duration is left as it is, and normalizing the built request
\* again changes nothing.
C14_DurationNormalization ==
  built # "no" =>
    \A f \in DurationFields(template) :
      /\ (f[2].isstr /\ DocumentedSeconds(f[2].text) >= 0) =>
            /\ built = "ok"
            /\ <<f[1], Duration(DocumentedSeconds(f[2].text), 0)>>
                 \in DurationFields(cluster_definition)
      /\ (~f[2].isstr /\ built = "ok") =>
            f \in DurationFields(cluster_definition)
      /\ built = "ok" =>
            convert_string_to_duration(cluster_definition).data = cluster_definition

\* the subnetwork reference of the request start() builds: the one of the
\* template, else the default one of the deployment on the form path
SubnetOfRequest ==
  LET gce == IF Has(template, "config")
                /\ Has(template["config"], "gce_cluster_config")
             THEN template["config"]["gce_cluster_config"] ELSE EmptyDict
  IN  IF Has(gce, "subnetwork_uri") THEN gce["subnetwork_uri"]
      ELSE IF user_options # EmptyDict /\ ~Has(gce, "network_uri")
      THEN dataproc_default_subnet
      ELSE <<>>
\* the reference names a location, third segment from the end, that is
\* neither the region of the spawner nor 'global'
EmbedsOtherRegion(u) ==
  Len(u) >= 3 /\ u[Len(u) - 2] \notin {Region, "global"}
\* the reference names the region of the spawner or 'global', or is a bare
\* name
EmbedsAcceptedScope(u) ==
  \/ Len(u) = 1
  \/ Len(u) >= 3 /\ u[Len(u) - 2] \in {Region, "global"}

\* C15: a request whose subnetwork reference embeds a region other than the
\* configured one and other than 'global' is rejected with an error before
\* any create call is submitted: the build ends with the error, start()
\* raises it and no create call was made.  A reference that embeds the
\* configured region or 'global', or a bare name, is never rejected: the
\* build succeeds and the create call follows.
C15_GeoScope ==
  /\ EmbedsOtherRegion(SubnetOfRequest) =>
        /\ createLog = <<>>
        /\ built \in {"no", MsgGeoMismatch}
        /\ (built # "no" /\ pc = "idle") =>
              (result.op = "start" /\ result.raised
                 /\ result.value = MsgGeoMismatch)
  /\ EmbedsAcceptedScope(SubnetOfRequest) =>
        /\ built \in {"no", "ok"}
        /\ built = "ok" => (pc = "create_submit" \/ createLog # <<>>)
\* start() ended by rejecting the subnetwork and no create call was made
C15_Witness ==
  /\ EmbedsOtherRegion(SubnetOfRequest)
  /\ pc = "idle" /\ result.op = "start" /\ result.raised
  /\ result.value = MsgGeoMismatch
  /\ createLog = <<>>

\* the software properties of the built request
BuiltProperties == cluster_definition["config"]["software_config"]["properties"]
\* the template or the free-form property triple of the form names an
\* identity other than the invoking user for the single-tenant property
NamesOtherIdentity ==
  \/ /\ Has(template, "config") /\ Has(template["config"], "software_config")
     /\ Has(template["config"]["software_config"], "properties")
     /\ Has(template["config"]["software_config"]["properties"],
            exclusive_user_property)
     /\ template["config"]["software_config"]["properties"]
          [exclusive_user_property] # UserName
  \/ /\ allow_custom_clusters
     /\ GetS(user_options, "custom_cluster") = "on"
     /\ GetS(user_options, "cluster_props_key_0") = exclusive_user_property[2]
     /\ GetS(user_options, "cluster_props_val_0") # UserName

FirstEvents(events, n) ==
  SubSeq(events, 1, IF Len(events) < n THEN Len(events) ELSE n)
\* no event of the sequence occurs twice
NoRepeat(events) ==
  \A i, j \in DOMAIN events : events[i].seq = events[j].seq => i = j
\* one sequence of events begins with the other
Agree(a, b) ==
  \A i \in DOMAIN a \cap DOMAIN b : a[i].seq = b[i].seq
\* the events yields keeps: the two start events and the log-driven events
IsLedgerEvent(e) ==
  e.message \in {"Server requested.", "Operation op1 for cluster uuid",
                 "method: message"}
\* the event of a failed operation, the closing event
IsFailedEvent(e) == e.failed /\ e.progress = 100
IsClosingEvent(e) ==
  ~e.failed /\ e.progress = 95 /\ e.message = "Cluster successfully created"

\* C17 as stated: an observer that attaches to a pending spawn after N
\* events were yielded to earlier observers receives exactly those N events,
\* in their order, before any other event, and receives no event twice.
C17_ProgressReplay ==
  \A o \in Observers :
    /\ Agree(observers[o].received, FirstEvents(emitted, observers[o].joined))
    /\ NoRepeat(observers[o].received)
\* C17 amended: of the N events yielded before it attached, an observer
\* receives exactly the ones the ledger keeps (the start events and the
\* log-driven events), in their order, before any other event, and receives
\* no event twice; the messages of failed log queries and the terminal
\* events yielded to earlier observers are not replayed.
C17_LedgerReplay ==
  \A o \in Observers :
    /\ Agree(observers[o].received,
             SelectSeq(FirstEvents(emitted, observers[o].joined), IsLedgerEvent))
    /\ NoRepeat(observers[o].received)
\* the second observer attached after a log-driven event and the message of
\* a failed log query were yielded to the first one, and has received the
\* ledger and one more event
C17_Witness ==
  /\ observers[2].joined >= 4
  /\ \E i \in 1..observers[2].joined : ~IsLedgerEvent(emitted[i])
  /\ \E i \in 1..observers[2].joined : emitted[i].entry # 0
  /\ Len(observers[2].received) > Len(progressor.yields)

\* the log entries processed so far
EntriesProcessed == Cardinality(progressor.logging \ {0})
\* C18 as stated: whatever the number of log entries processed, the bar
\* stays strictly below 90.
C18_BelowNinety == progressor.bar < 90
\* C18 amended: the bar never exceeds 90; from the 5 of the start events it
\* stays below 90 for the first 12 log entries and is 90 from the 13th on.
C18_AtMostNinety ==
  /\ progressor.bar <= 90
  /\ progressor.bar = 90 <=> EntriesProcessed >= 13
\* the 13th log entry was processed and the bar is 90
C18_Witness ==
  /\ EntriesProcessed = 13
  /\ progressor.bar = 90
  /\ observers[1].received # <<>>
  /\ observers[1].received[Len(observers[1].received)].progress = 90

\* the generator of o ended after operation.done() answered True
EndedAfterDone(o) == observers[o].operation_done /\ observers[o].pc = "done"
LastEvent(o) == observers[o].received[Len(observers[o].received)]
FailedEvents(o) ==
  {i \in DOMAIN observers[o].received : IsFailedEvent(observers[o].received[i])}
ClosingEvents(o) ==
  {i \in DOMAIN observers[o].received : IsClosingEvent(observers[o].received[i])}
\* C19, the part on states: a generator that ended after a failed operation
\* yielded exactly one event marked failed at 100, as its last event; one
\* that ended after a successful operation and read the cluster as RUNNING
\* yielded exactly one closing event at 95, as its last event; and no
\* log-driven event follows a terminal event.
TerminalEvents ==
  \A o \in Observers :
    /\ (EndedAfterDone(o) /\ opState = "FAILED") =>
         /\ IsFailedEvent(LastEvent(o))
         /\ Cardinality(FailedEvents(o)) = 1
    /\ (EndedAfterDone(o) /\ opState = "DONE"
          /\ observers[o].status = "RUNNING") =>
         /\ IsClosingEvent(LastEvent(o))
         /\ Cardinality(ClosingEvents(o)) = 1
    /\ \A i, j \in DOMAIN observers[o].received :
         (i < j /\ (IsFailedEvent(observers[o].received[i])
                      \/ IsClosingEvent(observers[o].received[i]))) =>
           observers[o].received[j].entry = 0
\* C19: once operation.done() has answered True to a generator, the
\* generator eventually ends, and its events end as TerminalEvents says.
C19_TerminalEvents ==
  /\ []TerminalEvents
  /\ \A o \in Observers :
       observers[o].operation_done ~> observers[o].pc = "done"
\* both generators ended after a failed operation, the first one with a
\* log-driven event before its failed event
C19_Witness ==
  /\ EndedAfterDone(1) /\ EndedAfterDone(2) /\ opState = "FAILED"
  /\ IsFailedEvent(LastEvent(1)) /\ IsFailedEvent(LastEvent(2))
  /\ \E i \in DOMAIN observers[1].received : observers[1].received[i].entry # 0

\* C20: _generate_progress yields at least one event to its consumer,
\* whether or not a spawn is pending and whether or not there is an
\* operation.
C20_AlwaysYields ==
  \A o \in Observers :
    observers[o].pc = "done" => Len(observers[o].received) >= 1

\* C21: wait_up never reports the server as up after reading a cluster state
\* other than RUNNING (CREATING, UPDATING, DELETING, UNKNOWN or no cluster
\* keep it waiting until the timeout), and it raises as soon as it reads the
\* state ERROR.
C21_WaitUp ==
  /\ server.pc = "up" => server.status = "RUNNING"
  /\ server.status \in {NoneS, "CREATING", "UPDATING", "DELETING", "UNKNOWN"} =>
       (server.pc = "waiting" \/ server.err = "TimeoutError")
  /\ server.status = "ERROR" => (server.pc = "raised" /\ server.err = "RuntimeError")

\* the events that report log entry id, in a list of events
EventsOfEntry(events, id) == {i \in DOMAIN events : events[i].entry = id}
RECURSIVE BarAfter(_)
\* the percentage after n distinct log entries of a spawn that yielded its
\* start events
BarAfter(n) == IF n = 0 THEN 5 ELSE BarStep(BarAfter(n - 1))
\* C22: each log entry, identified by its insert id, is emitted and recorded
\* in the ledger at most once and advances the percentage once, however
\* often the sink is polled and by however many generators; an entry that
\* was seen changes neither the percentage nor the ledger, and the
\* percentages of the ledger never decrease.
C22_Deduplication ==
  /\ \A id \in 1..logSink.count :
       /\ Cardinality(EventsOfEntry(emitted, id)) <= 1
       /\ Cardinality(EventsOfEntry(progressor.yields, id)) <= 1
       /\ \A o \in Observers :
            Cardinality(EventsOfEntry(observers[o].received, id)) <= 1
       /\ id \in progressor.logging <=>
            EventsOfEntry(progressor.yields, id) # {}
  /\ progressor.yields # <<>> =>
       progressor.bar = BarAfter(Cardinality(progressor.logging \ {0}))
  /\ \A i, j \in DOMAIN progressor.yields :
       i < j => progressor.yields[i].progress <= progressor.yields[j].progress

\* two generators polled a sink of two entries until the operation was done:
\* each entry was met by both and reported by one
C22_Witness ==
  /\ logSink.count = 2
  /\ progressor.logging = {0, 1, 2}
  /\ Len(progressor.yields) = 4
  /\ \A o \in Observers : observers[o].pc = "done" /\ observers[o].operation_done
  /\ EventsOfEntry(SubSeq(observers[1].received, 3, Len(observers[1].received)), 1) # {}
  /\ \E i \in DOMAIN observers[2].received :
       /\ observers[2].received[i].entry = 2
       /\ i > 3

\* C23: in a second spawn attempt of the same spawner, the progress starts
\* from an empty ledger and the percentage 0: no event of the earlier
\* attempt is in the ledger or is yielded to a consumer of the new attempt,
\* and no insert id of the earlier attempt is in the set used for
\* deduplication.
C23_ProgressPerAttempt ==
  (spawns # <<>> /\ observers[1].pc # "detached") =>
    LET earlier == spawns[Len(spawns)]
    IN  /\ \A i \in DOMAIN progressor.yields :
             progressor.yields[i].seq > earlier.created
        /\ \A o \in Observers : \A i \in DOMAIN observers[o].received :
             observers[o].received[i].seq > earlier.created
        /\ progressor.logging \cap (earlier.logging \ {0}) = {}

\* C24: once a start() call has read the state DELETING, at its first status
\* query or at the status query that follows a refused create call, it makes
\* no further create call.
C24_NoCreateAfterDeleting == ~(seenDeleting /\ pc = "create_wait")

\* this spawner created the cluster and a lifecycle call of it read the
\* state RUNNING; another actor deleted the cluster, which is gone
DeletedByOther ==
  /\ operation # 0
  /\ \E i \in DOMAIN opLog : opLog[i].got = "RUNNING"
  /\ "ext_delete" \in faults
  /\ cluster = Absent
\* C25: no lifecycle state is cached.  After the cluster that this spawner
\* created and saw RUNNING was deleted by another actor, a poll() returns 1,
\* and a start() neither raises nor skips the create call: from its first
\* status query it goes on to the existence test and from there to a new
\* create call, whatever operation handle it retains.
C25_NoLocalCache ==
  [][DeletedByOther =>
       /\ (Len(opLog') > Len(opLog) /\ result'.op = "poll") => result'.value = "1"
       /\ (pc = "idle" /\ pc' # "idle") => pc' = "start_exists"
       /\ (pc = "start_exists" /\ pc' # "start_exists") => pc' = "create_submit"
       /\ pc = "create_submit" =>
            (pc' # pc => Len(createLog') = Len(createLog) + 1)]_vars

\* start() created the cluster, poll() saw it RUNNING, another actor deleted
\* it; the next poll() returned 1 and the next start() made a second create
\* call
C25_Witness ==
  /\ Len(opLog) = 3
  /\ opLog[1].op = "start" /\ ~opLog[1].raised
  /\ opLog[2].op = "poll" /\ opLog[2].got = "RUNNING" /\ opLog[2].value = NoneS
  /\ opLog[3].op = "poll" /\ opLog[3].value = "1"
  /\ "ext_delete" \in faults
  /\ Len(createLog) = 2
  /\ createLog[1].start = 1 /\ createLog[2].start = 2
  /\ pc = "create_wait"

\* the form fields that _apply_users_configs reads, of those a form of the
\* model carries
CustomizationFields ==
  {"cluster_props_prefix_0", "cluster_props_key_0", "cluster_props_val_0",
   "image_version", "custom_image"}
\* the form without its customization fields
StripCustom(uo) == [k \in DOMAIN uo \ CustomizationFields |-> uo[k]]
\* the operator has not enabled customization, or the form does not ask for
\* a custom cluster
GateClosed ==
  ~allow_custom_clusters \/ GetS(user_options, "custom_cluster") # "on"
\* the build of the same spawner under the form without its customization
\* fields ends as the build that was made
SameAsStripped ==
  LET twin == build_cluster_config(
                [self EXCEPT !.user_options = StripCustom(user_options)])
  IN  /\ built = (IF twin.err = "" THEN "ok" ELSE twin.err)
      /\ cluster_definition = twin.data
\* C26: while the gate is closed, the request that a build produces is the
\* request of the build under the form without its customization fields:
\* two builds that differ only in those fields produce the same request.
C26_OverridesGated == (built = "ok" /\ GateClosed) => SameAsStripped

\* the operator has not enabled customization; a form with a template, the
\* request of a custom cluster and a property triple was built, and the
\* triple is not in the request
C26_Witness ==
  /\ built = "ok"
  /\ ~allow_custom_clusters
  /\ GetS(user_options, "custom_cluster") = "on"
  /\ GetS(user_options, "cluster_type") = "bucket/config.yaml"
  /\ GetS(user_options, "cluster_props_prefix_0") = "spark"
  /\ StripCustom(user_options) # user_options
  /\ ~Has(cluster_definition["config"]["software_config"]["properties"],
          <<"spark", "spark.executor.cores">>)

\* the zones of the letters that the operator configured
ConfiguredZones ==
  {ZoneName(Region, dataproc_locations_list[k]) :
     k \in DOMAIN dataproc_locations_list}
\* C27: the zone of a create call that follows a refused one in the same
\* start() call is the zone of a configured candidate letter in the region
\* of the spawner, or the zone just attempted; with an empty candidate list
\* it is the zone just attempted.
C27_RetryZone ==
  \A i \in DOMAIN createLog :
    (i > 1 /\ createLog[i - 1].start = createLog[i].start) =>
      createLog[i].zone \in ConfiguredZones \cup {createLog[i - 1].zone}

\* C28: the spawners of two users with different names resolve to different
\* cluster names, so no start() adopts the cluster that was created for the
\* other user and no stop() deletes it.
C28_TenantIsolation ==
  \A i \in DOMAIN tenants.log :
    /\ tenants.log[i].owner = tenants.log[i].user
    /\ ClusterName(tenants.names[1]) # ClusterName(tenants.names[2])

\* C29: no log-driven event is lost to a consumer that is attached when it is
\* emitted: a consumer that received an event created before it and an event
\* created after it received the event itself, whichever generator met the
\* log entry first.
C29_NoEventLost ==
  \A o \in Observers : \A k \in DOMAIN emitted :
    LET e == emitted[k]
        got == observers[o].received
    IN  (/\ e.entry # 0
         /\ \E i \in DOMAIN got : got[i].seq < e.seq
         /\ \E j \in DOMAIN got : got[j].seq > e.seq)
          => \E i \in DOMAIN got : got[i].seq = e.seq

\* C30: a stop() that returns without a delete call found no cluster on the
\* control plane; in particular a failed existence query does not make
\* stop() a completed no-op while the cluster exists.
C30_StopDeletesWhatExists ==
  [][(/\ Len(opLog') > Len(opLog)
      /\ result'.op = "stop"
      /\ ~result'.raised
      /\ deleteLog' = deleteLog)
       => cluster = Absent]_vars

====
